---------------------------- MODULE Spec2Model ----------------------------
(***************************************************************************)
(* A model of the dnsmessage codec: the streaming Builder with name        *)
(* compression (src/src/builder.rs), the lazy parser Packet / NameVisitor  *)
(* and the in-place cursors (src/src/packet.rs), and the wire types        *)
(* (src/src/lib.rs).                                                       *)
(*                                                                         *)
(* Conventions.  A byte is a number 0..255; a buffer, a name in text form  *)
(* and a label are sequences of bytes.  Offsets are 0-based as in the      *)
(* source, so the byte at offset o of buffer b is b[o + 1].  A Result is a *)
(* record [ok, err, val]; the pseudo error "Panic" stands for a Rust panic *)
(* (an out-of-range slice index), which is not a returned Err.             *)
(***************************************************************************)
EXTENDS Integers, Sequences, FiniteSets, TLC

Ok(v) == [ok |-> TRUE, err |-> "", val |-> v]
Err(e) == [ok |-> FALSE, err |-> e, val |-> <<>>]

\* The `?` operator: the Err of r returned as it is, else F of r's value.
Try(r, F(_)) == IF r.ok THEN F(r.val) ELSE r
\* `let v = ...;`
Let(v, F(_)) == F(v)
\* The same with v evaluated once, whatever the number of its uses in F.
Bind(v, F(_)) == CHOOSE y \in {F(x) : x \in {v}} : TRUE

Min(a, b) == IF a <= b THEN a ELSE b
Max(a, b) == IF a >= b THEN a ELSE b

\* Bitwise and / or of two naturals below 2^16, bit by bit.
RECURSIVE BitAnd(_, _)
BitAnd(a, b) ==
    IF a = 0 \/ b = 0 THEN 0
    ELSE 2 * BitAnd(a \div 2, b \div 2) + (IF a % 2 = 1 /\ b % 2 = 1 THEN 1 ELSE 0)

RECURSIVE BitOr(_, _)
BitOr(a, b) ==
    IF a = 0 THEN b
    ELSE IF b = 0 THEN a
    ELSE 2 * BitOr(a \div 2, b \div 2) + (IF a % 2 = 1 \/ b % 2 = 1 THEN 1 ELSE 0)

\* u16::to_be_bytes, u32::to_be_bytes and their inverses.  A u32 is the pair
\* <<high, low>> of its 16-bit halves (the checker's integers are 32-bit
\* signed, so a u32 does not fit one number).
U16Bytes(v) == << (v \div 256) % 256, v % 256 >>
U16From(b) == b[1] * 256 + b[2]
U32Bytes(v) == U16Bytes(v[1]) \o U16Bytes(v[2])
U32From(b) == << b[1] * 256 + b[2], b[3] * 256 + b[4] >>

\* `as u16` / `as u8` truncation.
AsU16(v) == v % 65536
AsU8(v) == v % 256

(***************************************************************************)
(* lib.rs: the enumerations and MaybeUnknown.                              *)
(***************************************************************************)
TypeA == 1
TypeNS == 2
TypeCNAME == 5
TypeSOA == 6
TypePTR == 12
TypeMX == 15
TypeTXT == 16
TypeAAAA == 28
TypeSRV == 33
\* The discriminants of enum Type, enum Class and enum RCode.
TypeValues == {1, 2, 5, 6, 12, 15, 16, 28, 33, 41, 11, 13, 14, 252, 255}
ClassValues == {1, 2, 3, 4, 255}
RCodeValues == {0, 1, 2, 3, 4, 5}

Known(e) == [k |-> "Known", v |-> e]
Unknown(p) == [k |-> "Unknown", v |-> p]
\* MaybeUnknown::from(primitive): Known when try_from_primitive succeeds.
MaybeFrom(values, p) == IF p \in values THEN Known(p) ELSE Unknown(p)
\* MaybeUnknown::into(): the primitive of either variant.
MaybeInto(m) == m.v

\* HeaderFlags::all(): bits 10..4.
HeaderFlagsAll == 2032

(***************************************************************************)
(* packet.rs: bounds-checked loads and stores.                             *)
(***************************************************************************)
NoLimit == -1

\* A load that checks the buffer and never the limit.
load_bytes_unlimited(buffers, offset, N, limit) ==
    IF Len(buffers) < offset + N THEN Err("ShortBuffer")
    ELSE Ok(SubSeq(buffers, offset + 1, offset + N))

load_bytes(buffers, offset, N, limit) ==
    IF Len(buffers) < offset + N THEN Err("ShortBuffer")
    ELSE IF limit # NoLimit /\ offset + N > limit THEN Err("PacketSizeMismatch")
    ELSE Ok(SubSeq(buffers, offset + 1, offset + N))

\* A store one byte behind the offset asked for.
store_bytes_behind(buffers, offset, bytes) ==
    IF Len(buffers) < offset + 1 + Len(bytes)
    THEN [res |-> Err("ShortBuffer"), buf |-> buffers]
    ELSE [res |-> Ok(<<>>),
          buf |-> [i \in 1..Len(buffers) |->
                     IF i > offset + 1 /\ i <= offset + 1 + Len(bytes)
                     THEN bytes[i - offset - 1] ELSE buffers[i]]]

\* The Result of store_bytes and the buffer it leaves.
store_bytes(buffers, offset, bytes) ==
    IF Len(buffers) < offset + Len(bytes)
    THEN [res |-> Err("ShortBuffer"), buf |-> buffers]
    ELSE [res |-> Ok(<<>>),
          buf |-> [i \in 1..Len(buffers) |->
                     IF i > offset /\ i <= offset + Len(bytes)
                     THEN bytes[i - offset] ELSE buffers[i]]]

RECURSIVE skip_name(_, _)
skip_name(packet, offset) ==
    Try(load_bytes(packet, offset, 1, NoLimit), LAMBDA l :
    Let(l[1], LAMBDA len_or_ptr :
        CASE len_or_ptr \div 64 = 3 -> Ok(offset + 2)
          [] len_or_ptr \div 64 = 0 ->
               IF len_or_ptr = 0 THEN Ok(offset + 1)
               ELSE skip_name(packet, offset + 1 + len_or_ptr)
          [] OTHER -> Err("InvalidNameSegmentBody")))

skip_question(packet, offset) ==
    Try(skip_name(packet, offset), LAMBDA n : Ok(n + 2 + 2))

skip_resource(packet, offset) ==
    Try(skip_name(packet, offset), LAMBDA n :
    Try(load_bytes(packet, n + 2 + 2 + 4, 2, NoLimit), LAMBDA len :
    Ok(n + 2 + 2 + 4 + 2 + U16From(len))))

\* `for _ in 0..count { offset = skip(packet, offset)? }`
RECURSIVE skip_records(_, _, _, _)
skip_records(packet, offset, count, isQuestion) ==
    IF count = 0 THEN Ok(offset)
    ELSE Try(IF isQuestion THEN skip_question(packet, offset) ELSE skip_resource(packet, offset),
             LAMBDA next : skip_records(packet, next, count - 1, isQuestion))

\* Ok([sections, offset]): the section index and the offset the scan ends at.
collect_sections(packet) ==
    Try(load_bytes(packet, 4, 2, NoLimit), LAMBDA questions :
    Try(load_bytes(packet, 6, 2, NoLimit), LAMBDA answers :
    Try(load_bytes(packet, 8, 2, NoLimit), LAMBDA authorities :
    Try(load_bytes(packet, 10, 2, NoLimit), LAMBDA additionals :
    Try(skip_records(packet, 12, U16From(questions), TRUE), LAMBDA answers_offset :
    Try(skip_records(packet, answers_offset, U16From(answers), FALSE),
        LAMBDA authorities_offset :
    Try(skip_records(packet, authorities_offset, U16From(authorities), FALSE),
        LAMBDA additionals_offset :
    Try(skip_records(packet, additionals_offset, U16From(additionals), FALSE),
        LAMBDA offset :
    Ok([sections |-> [questions |-> U16From(questions), questions_offset |-> 12,
                      answers |-> U16From(answers), answers_offset |-> answers_offset,
                      authorities |-> U16From(authorities),
                      authorities_offset |-> authorities_offset,
                      additionals |-> U16From(additionals),
                      additionals_offset |-> additionals_offset],
        offset |-> offset])))))))))

\* Packet::new: Ok([packet, sections]).
Packet_new(buf) ==
    Try(collect_sections(buf), LAMBDA cs :
        IF Len(buf) > cs.offset THEN Err("PacketSizeMismatch")
        ELSE Ok([packet |-> buf, sections |-> cs.sections]))

(***************************************************************************)
(* packet.rs: NameVisitor.                                                 *)
(***************************************************************************)
\* The outcome of one call of the iterator of NameVisitor::segments(): res
\* is Ok(<<label>>) for Ok(Some(label)), Ok(<<>>) for Ok(None), or the Err;
\* offset and ptr_count are the iterator's state after the call.
Segment(res, offset, ptr_count) == [res |-> res, offset |-> offset, ptr_count |-> ptr_count]

\* try_load_segment run on the iterator's (offset, ptr_count).
RECURSIVE try_load_segment(_, _, _)
try_load_segment(packet, offset, ptr_count) ==
    Bind(load_bytes(packet, offset, 1, NoLimit), LAMBDA l :
    IF ~l.ok THEN Segment(l, offset, ptr_count)
    ELSE Bind(l.val[1], LAMBDA len_or_ptr :
         CASE len_or_ptr \div 64 = 3 ->
                IF ptr_count > 10 THEN Segment(Err("TooManyPointers"), offset, ptr_count)
                ELSE Bind(load_bytes(packet, offset + 1, 1, NoLimit), LAMBDA lo :
                     IF ~lo.ok THEN Segment(lo, offset, ptr_count + 1)
                     ELSE try_load_segment(packet, (len_or_ptr % 64) * 256 + lo.val[1],
                                           ptr_count + 1))
           [] len_or_ptr \div 64 = 0 ->
                IF len_or_ptr = 0 THEN Segment(Ok(<<>>), offset, ptr_count)
                ELSE IF Len(packet) < offset + 1 + len_or_ptr
                THEN Segment(Err("ShortBuffer"), offset + 1, ptr_count)
                ELSE Segment(Ok(<< SubSeq(packet, offset + 2, offset + 1 + len_or_ptr) >>),
                             offset + 1 + len_or_ptr, ptr_count)
           [] OTHER -> Segment(Err("InvalidNameSegmentBody"), offset, ptr_count)))

\* std::str::from_utf8(s).is_ok(), from position i of s.
Cont(s, j, lo, hi) == j <= Len(s) /\ s[j] >= lo /\ s[j] <= hi

RECURSIVE Utf8From(_, _)
Utf8From(s, i) ==
    IF i > Len(s) THEN TRUE
    ELSE Let(s[i], LAMBDA b :
         CASE b < 128 -> Utf8From(s, i + 1)
           [] b >= 194 /\ b <= 223 -> Cont(s, i + 1, 128, 191) /\ Utf8From(s, i + 2)
           [] b >= 224 /\ b <= 239 ->
                /\ Cont(s, i + 1, IF b = 224 THEN 160 ELSE 128, IF b = 237 THEN 159 ELSE 191)
                /\ Cont(s, i + 2, 128, 191)
                /\ Utf8From(s, i + 3)
           [] b >= 240 /\ b <= 244 ->
                /\ Cont(s, i + 1, IF b = 240 THEN 144 ELSE 128, IF b = 244 THEN 143 ELSE 191)
                /\ Cont(s, i + 2, 128, 191)
                /\ Cont(s, i + 3, 128, 191)
                /\ Utf8From(s, i + 4)
           [] OTHER -> FALSE)

from_utf8_ok(s) == Utf8From(s, 1)

\* What TryInto<String> returns, with the number of pointers dereferenced
\* and of iterator calls made on the way.
Text(res, ptr_count, calls) == [res |-> res, ptr_count |-> ptr_count, calls |-> calls]

\* The `for segment in self.segments()` loop of TryInto<String>: s is the
\* text so far, calls the number of iterator calls made so far.
RECURSIVE try_into_loop(_, _, _, _, _)
try_into_loop(packet, offset, ptr_count, s, calls) ==
    Let(try_load_segment(packet, offset, ptr_count), LAMBDA seg :
    IF ~seg.res.ok THEN Text(seg.res, seg.ptr_count, calls + 1)
    ELSE IF seg.res.val = <<>>
    THEN Text(Ok(IF s = <<>> THEN <<46>> ELSE s), seg.ptr_count, calls + 1)
    ELSE Let(seg.res.val[1], LAMBDA segment :
         IF (\E i \in 1..Len(segment) : segment[i] = 46) \/ ~from_utf8_ok(segment)
         THEN Text(Err("InvalidNameSegmentBody"), seg.ptr_count, calls + 1)
         ELSE try_into_loop(packet, seg.offset, seg.ptr_count,
                            s \o segment \o <<46>>, calls + 1)))

\* A conversion that takes every name for the root.
try_into_root(packet, offset) == Text(Ok(<<46>>), 0, 1)

\* TryInto<String> for &NameVisitor{packet, offset}.
try_into(packet, offset) == try_into_loop(packet, offset, 0, <<>>, 0)

\* The canonical text of the name at offset, or its error.
NameText(packet, offset) == try_into(packet, offset).res

(***************************************************************************)
(* packet.rs: record parsing.  A NameVisitor field holds the name's       *)
(* offset into the packet.                                                 *)
(***************************************************************************)
\* A parse_question that converts the name before it yields the question.
parse_question_resolved(packet, offset) ==
    Try(NameText(packet, offset), LAMBDA text :
    Try(skip_name(packet, offset), LAMBDA n :
    Try(load_bytes(packet, n, 2, NoLimit), LAMBDA typ :
    Try(load_bytes(packet, n + 2, 2, NoLimit), LAMBDA class :
    Ok([rec |-> [name |-> offset,
                 typ |-> MaybeFrom(TypeValues, U16From(typ)),
                 class |-> MaybeFrom(ClassValues, U16From(class))],
        next |-> n + 4])))))

\* Ok([rec, next]).
parse_question(packet, offset) ==
    Try(skip_name(packet, offset), LAMBDA n :
    Try(load_bytes(packet, n, 2, NoLimit), LAMBDA typ :
    Try(load_bytes(packet, n + 2, 2, NoLimit), LAMBDA class :
    Ok([rec |-> [name |-> offset,
                 typ |-> MaybeFrom(TypeValues, U16From(typ)),
                 class |-> MaybeFrom(ClassValues, U16From(class))],
        next |-> n + 4]))))

\* The TXT arm's `while offset < limit` loop.
RECURSIVE parse_txt(_, _, _, _)
parse_txt(packet, offset, limit, texts) ==
    IF ~(offset < limit) THEN Ok([kind |-> "TXT", txt |-> texts])
    ELSE Try(load_bytes(packet, offset, 1, limit), LAMBDA l :
         Let(l[1], LAMBDA len :
             IF offset + 1 + len > Len(packet) THEN Err("ShortBuffer")
             ELSE IF offset + 1 + len > limit THEN Err("PacketSizeMismatch")
             ELSE parse_txt(packet, offset + 1 + len, limit,
                            Append(texts, SubSeq(packet, offset + 2, offset + 1 + len)))))

parse_soa(packet, offset, limit) ==
    Try(skip_name(packet, offset), LAMBDA mbox :
    Try(skip_name(packet, mbox), LAMBDA at :
    Try(load_bytes(packet, at, 4, limit), LAMBDA serial :
    Try(load_bytes(packet, at + 4, 4, limit), LAMBDA refresh :
    Try(load_bytes(packet, at + 8, 4, limit), LAMBDA retry :
    Try(load_bytes(packet, at + 12, 4, limit), LAMBDA expire :
    Try(load_bytes(packet, at + 16, 4, limit), LAMBDA min_ttl :
    Ok([kind |-> "SOA", ns |-> offset, mbox |-> mbox,
        serial |-> U32From(serial), refresh |-> U32From(refresh),
        retry |-> U32From(retry), expire |-> U32From(expire),
        min_ttl |-> U32From(min_ttl)]))))))))

parse_srv(packet, offset, limit) ==
    Try(load_bytes(packet, offset, 2, limit), LAMBDA priority :
    Try(load_bytes(packet, offset + 2, 2, limit), LAMBDA weight :
    Try(load_bytes(packet, offset + 4, 2, limit), LAMBDA port :
    Ok([kind |-> "SRV", priority |-> U16From(priority), weight |-> U16From(weight),
        port |-> U16From(port), target |-> offset + 6]))))

\* &packet[offset..limit]: a panic when the range is not inside the packet.
Slice(packet, offset, limit) ==
    IF limit > Len(packet) \/ offset > limit THEN Err("Panic")
    ELSE Ok(SubSeq(packet, offset + 1, limit))

\* typ is the MaybeUnknown<Type> of the record.
parse_resource_data(packet, offset, limit, typ) ==
    CASE typ = Known(TypeA) ->
           Try(load_bytes(packet, offset, 4, limit), LAMBDA a : Ok([kind |-> "A", a |-> a]))
      [] typ = Known(TypeNS) -> Ok([kind |-> "NS", ns |-> offset])
      [] typ = Known(TypeCNAME) -> Ok([kind |-> "CNAME", cname |-> offset])
      [] typ = Known(TypeSOA) -> parse_soa(packet, offset, limit)
      [] typ = Known(TypePTR) -> Ok([kind |-> "PTR", ptr |-> offset])
      [] typ = Known(TypeMX) ->
           Try(load_bytes(packet, offset, 2, limit), LAMBDA preference :
               Ok([kind |-> "MX", preference |-> U16From(preference), mx |-> offset + 2]))
      [] typ = Known(TypeTXT) -> parse_txt(packet, offset, limit, <<>>)
      [] typ = Known(TypeAAAA) ->
           Try(load_bytes(packet, offset, 16, limit), LAMBDA aaaa :
               Ok([kind |-> "AAAA", aaaa |-> aaaa]))
      [] typ = Known(TypeSRV) -> parse_srv(packet, offset, limit)
      [] OTHER ->
           Try(Slice(packet, offset, limit), LAMBDA data :
               Ok([kind |-> "Unknown", typ |-> typ, data |-> data]))

\* Ok([rec, next]).
parse_resource(packet, offset) ==
    Try(skip_name(packet, offset), LAMBDA n :
    Try(load_bytes(packet, n, 2, NoLimit), LAMBDA typ :
    Try(load_bytes(packet, n + 2, 2, NoLimit), LAMBDA class :
    Try(load_bytes(packet, n + 4, 4, NoLimit), LAMBDA ttl :
    Try(load_bytes(packet, n + 8, 2, NoLimit), LAMBDA data_len :
    Try(parse_resource_data(packet, n + 10, n + 10 + U16From(data_len),
                            MaybeFrom(TypeValues, U16From(typ))), LAMBDA data :
    Ok([rec |-> [name |-> offset,
                 class |-> MaybeFrom(ClassValues, U16From(class)),
                 ttl |-> U32From(ttl),
                 data |-> data],
        next |-> n + 10 + U16From(data_len)])))))))

(***************************************************************************)
(* packet.rs: header and the section iterators.                            *)
(***************************************************************************)
\* Packet::header().
Packet_header(packet) ==
    Try(load_bytes(packet, 0, 2, NoLimit), LAMBDA id :
    Try(load_bytes(packet, 2, 2, NoLimit), LAMBDA b :
    Let(U16From(b), LAMBDA bits :
    Ok([id |-> U16From(id),
        resp |-> BitAnd(bits, 128) # 0,
        opcode |-> BitAnd(bits, 112) \div 8,
        rcode |-> MaybeFrom(RCodeValues, BitAnd(bits, 15)),
        flags |-> BitAnd(bits, HeaderFlagsAll)]))))

\* The items of `(0..count).map(|_| { let (r, next) = parse(packet, offset)?;
\* offset = next; Ok(r) })` driven to exhaustion: offset advances only when
\* the item parsed; a panic ends the iteration.
RECURSIVE iter_records(_, _, _, _)
iter_records(packet, offset, count, isQuestion) ==
    IF count = 0 THEN <<>>
    ELSE Let(IF isQuestion THEN parse_question(packet, offset)
             ELSE parse_resource(packet, offset), LAMBDA r :
         IF ~r.ok /\ r.err = "Panic" THEN <<r>>
         ELSE IF ~r.ok THEN <<r>> \o iter_records(packet, offset, count - 1, isQuestion)
         ELSE <<Ok(r.val.rec)>> \o iter_records(packet, r.val.next, count - 1, isQuestion))

Packet_questions(p) == iter_records(p.packet, p.sections.questions_offset, p.sections.questions, TRUE)
Packet_answers(p) == iter_records(p.packet, p.sections.answers_offset, p.sections.answers, FALSE)
Packet_authorities(p) ==
    iter_records(p.packet, p.sections.authorities_offset, p.sections.authorities, FALSE)
Packet_additionals(p) ==
    iter_records(p.packet, p.sections.additionals_offset, p.sections.additionals, FALSE)

(***************************************************************************)
(* lib.rs: try_into_owned, the conversion of the borrowed records (names   *)
(* as visitors) to owned ones (names as canonical text).                   *)
(***************************************************************************)
Question_try_into_owned(packet, q) ==
    Try(NameText(packet, q.name), LAMBDA name :
        Ok([name |-> name, typ |-> q.typ, class |-> q.class]))

\* The names a ResourceData holds, in the order they are converted.
DataNames(d) ==
    CASE d.kind = "NS" -> <<d.ns>>
      [] d.kind = "CNAME" -> <<d.cname>>
      [] d.kind = "PTR" -> <<d.ptr>>
      [] d.kind = "MX" -> <<d.mx>>
      [] d.kind = "SOA" -> <<d.ns, d.mbox>>
      [] d.kind = "SRV" -> <<d.target>>
      [] OTHER -> <<>>

\* d with its names replaced by ns.
WithNames(d, ns) ==
    CASE d.kind = "NS" -> [d EXCEPT !.ns = ns[1]]
      [] d.kind = "CNAME" -> [d EXCEPT !.cname = ns[1]]
      [] d.kind = "PTR" -> [d EXCEPT !.ptr = ns[1]]
      [] d.kind = "MX" -> [d EXCEPT !.mx = ns[1]]
      [] d.kind = "SOA" -> [d EXCEPT !.ns = ns[1], !.mbox = ns[2]]
      [] d.kind = "SRV" -> [d EXCEPT !.target = ns[1]]
      [] OTHER -> d

\* Each name converted in turn, the first Err returned.
RECURSIVE names_try_into(_, _, _)
names_try_into(packet, names, done) ==
    IF names = <<>> THEN Ok(done)
    ELSE Try(NameText(packet, Head(names)), LAMBDA text :
             names_try_into(packet, Tail(names), Append(done, text)))

ResourceData_try_into_owned(packet, d) ==
    Try(names_try_into(packet, DataNames(d), <<>>), LAMBDA ns : Ok(WithNames(d, ns)))

Resource_try_into_owned(packet, r) ==
    Try(NameText(packet, r.name), LAMBDA name :
    Try(ResourceData_try_into_owned(packet, r.data), LAMBDA data :
    Ok([name |-> name, class |-> r.class, ttl |-> r.ttl, data |-> data])))

\* An item converted to owned form when it parsed.
OwnedItem(packet, item, isQuestion) ==
    IF ~item.ok THEN item
    ELSE IF isQuestion THEN Question_try_into_owned(packet, item.val)
    ELSE Resource_try_into_owned(packet, item.val)

\* A section's items in owned form.
OwnedItems(packet, offset, count, isQuestion) ==
    Let(iter_records(packet, offset, count, isQuestion), LAMBDA items :
        [i \in 1..Len(items) |-> OwnedItem(packet, items[i], isQuestion)])

\* The items of the four sections as the iterators yield them.
PacketItems(p) ==
    [questions |-> Packet_questions(p), answers |-> Packet_answers(p),
     authorities |-> Packet_authorities(p), additionals |-> Packet_additionals(p)]

\* What a reader sees of an accepted packet: the items of the four sections
\* in owned form.
PacketView(p) ==
    [s \in {"questions", "answers", "authorities", "additionals"} |->
        OwnedItems(p.packet, p.sections[s \o "_offset"], p.sections[s], s = "questions")]

(***************************************************************************)
(* builder.rs: the sink.  The Builder is generic over W: Write + Seek; the *)
(* sink modelled is std::io::Cursor<Vec<u8>> (kind "vec"), whose writes    *)
(* never fail, and a sink that keeps only the bytes of the 12-byte header  *)
(* window and counts the rest (kind "head"), or the bytes up to the length *)
(* field of the first resource (kind "front").                             *)
(***************************************************************************)
HeaderLen == 12

\* Write::write_all at the current position: overwrite, extend, advance.
Sink_store(w, bytes, end, total) ==
    [w EXCEPT !.data = [i \in 1..total |->
                          IF i > w.pos /\ i <= end THEN bytes[i - w.pos]
                          ELSE IF i <= Len(w.data) THEN w.data[i] ELSE 0],
              !.pos = end]

\* The bytes a sink keeps: the header, or the header and the first resource
\* up to its length field when that resource has the root name.
Window(kind) == IF kind = "head" THEN HeaderLen ELSE HeaderLen + 1 + 8 + 2

Sink_write_all(w, bytes) ==
    Sink_store(w, bytes, w.pos + Len(bytes),
               Max(Len(w.data), IF w.kind = "vec" THEN w.pos + Len(bytes)
                                ELSE Min(w.pos + Len(bytes), Window(w.kind))))

\* Seek::seek(SeekFrom::Start(pos)).
Sink_seek(w, pos) == [w EXCEPT !.pos = pos]

\* Builder::write and Builder::write_at on the builder record b.
Builder_write(b, bytes) == [b EXCEPT !.writer = Sink_write_all(b.writer, bytes)]

Builder_write_at(b, pos, bytes) ==
    [b EXCEPT !.writer = Sink_seek(Sink_write_all(Sink_seek(b.writer, pos), bytes),
                                   b.writer.pos)]

\* A Builder that takes the start of the sink for the origin of its message.
Builder_new_at_start(writer) ==
    [writer |-> writer, begin_pos |-> 0, name_ptrs |-> <<>>,
     questions |-> 0, answers |-> 0, authorities |-> 0, additionals |-> 0]

\* Builder::new(writer).
Builder_new(writer) ==
    [writer |-> writer, begin_pos |-> writer.pos, name_ptrs |-> <<>>,
     questions |-> 0, answers |-> 0, authorities |-> 0, additionals |-> 0]

(***************************************************************************)
(* builder.rs: pack_name.  name_ptrs is a function from suffix (a byte     *)
(* sequence) to offset.  A packing operation yields [b, res]: the builder  *)
(* it leaves and the Result it returns.                                    *)
(***************************************************************************)
Packed(b, res) == [b |-> b, res |-> res]

\* `?` on a packing step: its Err returned with the builder as it left it,
\* else F of the builder.
TryPack(p, F(_)) == IF p.res.ok THEN F(p.b) ELSE p

\* The indexes (0-based) of the dots of name, in order: the k-th is the one
\* with k - 1 dots before it.
dot_indexes_from(name, dots) ==
    [k \in 1..Cardinality(dots) |->
        CHOOSE d \in dots : Cardinality({e \in dots : e < d}) = k - 1]

dot_indexes(name) == dot_indexes_from(name, {i - 1 : i \in {j \in 1..Len(name) : name[j] = 46}})

\* name[from..] with a 0-based index.
Suffix(name, from) == SubSeq(name, from + 1, Len(name))

\* BTreeMap::insert.
Map_insert(m, key, v) == [k \in DOMAIN m \cup {key} |-> IF k = key THEN v ELSE m[k]]

\* A dictionary that remembers a suffix at any offset.
remember_suffix_anywhere(b, key, new_ptr) ==
    [b EXCEPT !.name_ptrs = Map_insert(b.name_ptrs, key, AsU16(new_ptr))]

\* `if new_ptr <= (u16::MAX >> 2) { name_ptrs.insert(suffix, new_ptr as u16) }`
remember_suffix(b, key, new_ptr) ==
    IF new_ptr <= 16383
    THEN [b EXCEPT !.name_ptrs = Map_insert(b.name_ptrs, key, AsU16(new_ptr))]
    ELSE b

\* A pack_label that remembers the suffix behind its first label.
pack_label_behind(b, name, segment_begin_index, segment_end_index) ==
    Let(Builder_write(
            Builder_write(b, <<AsU8(segment_end_index - segment_begin_index)>>),
            SubSeq(name, segment_begin_index + 1, segment_end_index)), LAMBDA w :
        remember_suffix(w, Suffix(name, segment_begin_index), w.writer.pos - w.begin_pos))

\* The label of name from segment_begin_index to segment_end_index written
\* after its suffix is remembered.
pack_label(b, name, segment_begin_index, segment_end_index) ==
    Builder_write(
        Builder_write(
            remember_suffix(b, Suffix(name, segment_begin_index),
                            b.writer.pos - b.begin_pos),
            <<AsU8(segment_end_index - segment_begin_index)>>),
        SubSeq(name, segment_begin_index + 1, segment_end_index))

\* A label check that lets a label of 64 bytes pass.
invalid_segment_size_above(segment_len) == segment_len = 0 \/ segment_len > 64

\* `segment_len == 0 || segment_len >= 1 << 6`
invalid_segment_size(segment_len) == segment_len = 0 \/ segment_len >= 64

\* The `for segment_end_index in dot_indexes` loop and the final write(&[0]).
RECURSIVE pack_name_loop(_, _, _, _)
pack_name_loop(b, name, segment_begin_index, idxs) ==
    IF idxs = <<>> THEN Packed(Builder_write(b, <<0>>), Ok(<<>>))
    ELSE
    Let(Head(idxs) - segment_begin_index, LAMBDA segment_len :
    IF invalid_segment_size(segment_len)
    THEN Packed(b, [ok |-> FALSE, err |-> "InvalidNameSegmentSize", val |-> segment_len])
    ELSE IF Suffix(name, segment_begin_index) \in DOMAIN b.name_ptrs
    THEN Packed(Builder_write(b, U16Bytes(BitOr(b.name_ptrs[Suffix(name, segment_begin_index)],
                                                49152))),
                Ok(<<>>))
    ELSE pack_name_loop(pack_label(b, name, segment_begin_index, Head(idxs)),
                        name, Head(idxs) + 1, Tail(idxs)))

\* A pack_name without the check of the last byte.
pack_name_unchecked(b, name) ==
    IF name = <<46>> THEN Packed(Builder_write(b, <<0>>), Ok(<<>>))
    ELSE pack_name_loop(b, name, 0, dot_indexes(name))

pack_name(b, name) ==
    IF name = <<46>> THEN Packed(Builder_write(b, <<0>>), Ok(<<>>))
    ELSE IF name = <<>> \/ name[Len(name)] # 46 THEN Packed(b, Err("NonCanonicalName"))
    ELSE pack_name_loop(b, name, 0, dot_indexes(name))

pack_question(b, question) ==
    TryPack(pack_name(b, question.name), LAMBDA b1 :
        Packed(Builder_write(b1, U16Bytes(MaybeInto(question.typ))
                                 \o U16Bytes(MaybeInto(question.class))),
               Ok(<<>>)))

(***************************************************************************)
(* builder.rs: pack_resource.  A resource is [name, class, ttl, data]; its *)
(* data is a record whose kind names the ResourceData variant.             *)
(***************************************************************************)
\* The type written for a ResourceData variant.
ResourceType(data) ==
    CASE data.kind = "CNAME" -> Known(TypeCNAME)
      [] data.kind = "MX" -> Known(TypeMX)
      [] data.kind = "NS" -> Known(TypeNS)
      [] data.kind = "PTR" -> Known(TypePTR)
      [] data.kind = "SOA" -> Known(TypeSOA)
      [] data.kind = "TXT" -> Known(TypeTXT)
      [] data.kind = "SRV" -> Known(TypeSRV)
      [] data.kind = "A" -> Known(TypeA)
      [] data.kind = "AAAA" -> Known(TypeAAAA)
      [] data.kind = "Unknown" -> data.typ

\* The TXT arm's `for txt in txt` loop.
RECURSIVE pack_txt(_, _)
pack_txt(b, txt) ==
    IF txt = <<>> THEN Packed(b, Ok(<<>>))
    ELSE IF Len(Head(txt)) > 255 THEN Packed(b, Err("TextTooLong"))
    ELSE pack_txt(Builder_write(b, <<AsU8(Len(Head(txt)))>> \o Head(txt)), Tail(txt))

\* The body of a variant as the arms of `match &resource.data` write it:
\* the bytes written before its names, its names, the bytes written after.
BodyBefore(data) ==
    CASE data.kind = "MX" -> U16Bytes(data.preference)
      [] data.kind = "SRV" ->
           U16Bytes(data.priority) \o U16Bytes(data.weight) \o U16Bytes(data.port)
      [] data.kind = "A" -> data.a
      [] data.kind = "AAAA" -> data.aaaa
      [] data.kind = "Unknown" -> data.data
      [] OTHER -> <<>>

BodyAfter(data) ==
    IF data.kind = "SOA"
    THEN U32Bytes(data.serial) \o U32Bytes(data.refresh) \o U32Bytes(data.retry)
         \o U32Bytes(data.expire) \o U32Bytes(data.min_ttl)
    ELSE <<>>

\* pack_name on each name in turn, stopping at the first Err.
RECURSIVE pack_names(_, _)
pack_names(b, names) ==
    IF names = <<>> THEN Packed(b, Ok(<<>>))
    ELSE TryPack(pack_name(b, Head(names)), LAMBDA b1 : pack_names(b1, Tail(names)))

\* The `match &resource.data` that writes the body.
pack_resource_data(b, data) ==
    IF data.kind = "TXT" THEN pack_txt(b, data.txt)
    ELSE TryPack(pack_names(Builder_write(b, BodyBefore(data)), DataNames(data)), LAMBDA b1 :
             Packed(Builder_write(b1, BodyAfter(data)), Ok(<<>>)))

\* The length backpatch at the end of pack_resource.
patch_length(b, len_pos) ==
    [b EXCEPT !.writer = Sink_seek(Sink_write_all(Sink_seek(b.writer, len_pos),
                                                  U16Bytes(AsU16(b.writer.pos - len_pos - 2))),
                                   b.writer.pos)]

pack_resource(b, resource) ==
    TryPack(pack_name(b, resource.name), LAMBDA b1 :
    Let(Builder_write(b1, U16Bytes(MaybeInto(ResourceType(resource.data)))
                          \o U16Bytes(MaybeInto(resource.class))
                          \o U32Bytes(resource.ttl)), LAMBDA b2 :
    TryPack(pack_resource_data(Builder_write(b2, U16Bytes(0)), resource.data), LAMBDA b3 :
    Packed(patch_length(b3, b2.writer.pos), Ok(<<>>)))))

(***************************************************************************)
(* builder.rs: the header word.                                            *)
(***************************************************************************)
\* The 16-bit flag word write_header computes for a Header
\* [id, resp, opcode, rcode, flags].
header_bits(header) ==
    BitOr(BitOr(BitOr(IF header.resp THEN 32768 ELSE 0,
                      AsU16(BitAnd(header.opcode, 7) * 2048)),
                BitAnd(header.flags, HeaderFlagsAll)),
          BitAnd(MaybeInto(header.rcode), 15))

\* The 12 bytes write_header writes.
header_bytes(header) ==
    U16Bytes(header.id) \o U16Bytes(header_bits(header))
    \o U16Bytes(0) \o U16Bytes(0) \o U16Bytes(0) \o U16Bytes(0)

(***************************************************************************)
(* The state.                                                              *)
(***************************************************************************)
VARIABLES
    phase,    \* the Builder's phase type, then "Finished"; "Wire" when the buffer
              \* did not come from a Builder; "Panicked" after a panic
    builder,  \* the Builder's fields: writer, begin_pos, name_ptrs and the counters
    calls,    \* how many write_* calls of each section returned Ok
    sent,     \* the header and the records those calls were given, in order, and
              \* in places the name of each with the offset it was written at
    buf,      \* the bytes handed to the reader: the finished sink or a received buffer
    packet,   \* [made, res]: whether Packet::new has run and its Result
    view,     \* [read, items, val]: the sections as last read from the packet, as
              \* the iterators' items and in owned form
    cursor,   \* the section cursor borrowed from the packet, if any
    last      \* the last operation and what it returned

vars == <<phase, builder, calls, sent, buf, packet, view, cursor, last>>

NoCalls == [questions |-> 0, answers |-> 0, authorities |-> 0, additionals |-> 0]
NoSent == [header |-> <<>>, questions |-> <<>>, answers |-> <<>>,
           authorities |-> <<>>, additionals |-> <<>>, places |-> <<>>]
NoPacket == [made |-> FALSE, res |-> Err("")]
NoView == [read |-> FALSE, items |-> <<>>, val |-> <<>>]
NoCursor == [kind |-> "none", offset |-> 0, count |-> 0, pos |-> -1, trues |-> 0]
Nothing == [op |-> "new", res |-> Ok(<<>>)]

\* An empty std::io::Cursor<Vec<u8>> and an empty header-window sink.
VecSink == [data |-> <<>>, pos |-> 0, kind |-> "vec"]
HeadSink == [data |-> <<>>, pos |-> 0, kind |-> "head"]
FrontSink == [data |-> <<>>, pos |-> 0, kind |-> "front"]

\* The state after Builder::new(sink).
InitBuilder(sink) ==
    /\ phase = "WantsHeader"
    /\ builder = Builder_new(sink)
    /\ calls = NoCalls
    /\ sent = NoSent
    /\ buf = <<>>
    /\ packet = NoPacket
    /\ view = NoView
    /\ cursor = NoCursor
    /\ last = Nothing

ReaderUnchanged == UNCHANGED <<buf, packet, view, cursor>>

(***************************************************************************)
(* builder.rs: the phase operations.                                       *)
(***************************************************************************)
\* `counter += 1` on a u16: the sum, or at 65535 what the build makes of the
\* overflow: a wrap to 0 (release) or a panic (debug).
U16Max == 65535
Increment(counter) ==
    IF counter < U16Max THEN {[val |-> counter + 1, panic |-> FALSE]}
    ELSE {[val |-> 0, panic |-> FALSE], [val |-> counter, panic |-> TRUE]}

\* Whether the inputs of the successful calls are logged in sent.
Logged(section, record, log) ==
    sent' = IF log
            THEN [sent EXCEPT ![section] = Append(@, record),
                              !.places = Append(@, [name |-> record.name,
                                                    at |-> builder.writer.pos
                                                           - builder.begin_pos])]
            ELSE sent

\* What last keeps of a write_* call: its Result, the record it was given
\* and the origin-relative offset the sink was at.
Written(op, res, record, log) ==
    [op |-> op, res |-> res, record |-> record, logged |-> log,
     at |-> builder.writer.pos - builder.begin_pos]

write_header(header) ==
    /\ phase = "WantsHeader"
    /\ builder' = Builder_write(builder, header_bytes(header))
    /\ phase' = "WantsQuestions"
    /\ sent' = [sent EXCEPT !.header = header]
    /\ last' = [op |-> "write_header", res |-> Ok(<<>>)]
    /\ UNCHANGED calls
    /\ ReaderUnchanged

\* A write_* that does not look at the phase it is called in.
write_record_in_any_phase(inPhase, section, op, packed, record, log) ==
    /\ phase \in {"WantsQuestions", "WantsAnswers", "WantsAuthorities", "WantsAdditionals"}
    /\ packed.res.ok
    /\ builder' = [packed.b EXCEPT ![section] = (@ + 1) % 65536]
    /\ phase' = inPhase
    /\ last' = Written(op, Ok(<<>>), record, log)
    /\ calls' = [calls EXCEPT ![section] = @ + 1]
    /\ Logged(section, record, log)
    /\ ReaderUnchanged

\* write_question / write_answer / write_authority / write_additional: pack
\* the record, then count it.  A failed pack returns the Err and drops the
\* Builder (self was moved into the call).
write_record(inPhase, section, op, packed, record, log) ==
    /\ phase = inPhase
    /\ IF ~packed.res.ok
       THEN /\ builder' = packed.b
            /\ phase' = "Failed"
            /\ last' = Written(op, packed.res, record, FALSE)
            /\ UNCHANGED <<calls, sent>>
       ELSE \E inc \in Increment(builder[section]) :
            /\ builder' = [packed.b EXCEPT ![section] = inc.val]
            /\ phase' = IF inc.panic THEN "Panicked" ELSE inPhase
            /\ last' = Written(op, IF inc.panic THEN Err("Panic") ELSE Ok(<<>>), record,
                                log /\ ~inc.panic)
            /\ calls' = IF inc.panic THEN calls ELSE [calls EXCEPT ![section] = @ + 1]
            /\ Logged(section, record, log /\ ~inc.panic)
    /\ ReaderUnchanged

write_question(question, log) ==
    write_record("WantsQuestions", "questions", "write_question",
                 pack_question(builder, question), question, log)

write_answer(answer, log) ==
    write_record("WantsAnswers", "answers", "write_answer",
                 pack_resource(builder, answer), answer, log)

write_authority(authority, log) ==
    write_record("WantsAuthorities", "authorities", "write_authority",
                 pack_resource(builder, authority), authority, log)

write_additional(additional, log) ==
    write_record("WantsAdditionals", "additionals", "write_additional",
                 pack_resource(builder, additional), additional, log)

\* finish_*: backpatch the section's count at begin_pos + at, move on.
finish_section(inPhase, section, at, nextPhase, op) ==
    /\ phase = inPhase
    /\ builder' = Builder_write_at(builder, builder.begin_pos + at, U16Bytes(builder[section]))
    /\ phase' = nextPhase
    /\ last' = [op |-> op, res |-> Ok(<<>>)]
    /\ UNCHANGED <<calls, sent>>

finish_questions ==
    /\ finish_section("WantsQuestions", "questions", 4, "WantsAnswers", "finish_questions")
    /\ ReaderUnchanged

finish_answers ==
    /\ finish_section("WantsAnswers", "answers", 6, "WantsAuthorities", "finish_answers")
    /\ ReaderUnchanged

finish_authorities ==
    /\ finish_section("WantsAuthorities", "authorities", 8, "WantsAdditionals",
                      "finish_authorities")
    /\ ReaderUnchanged

\* finish_additionals returns the sink: its bytes are what a reader is given.
finish_additionals ==
    /\ finish_section("WantsAdditionals", "additionals", 10, "Finished", "finish_additionals")
    /\ buf' = builder'.writer.data
    /\ UNCHANGED <<packet, view, cursor>>

(***************************************************************************)
(* packet.rs: the reader's operations on buf.                              *)
(***************************************************************************)
\* Packet::new(buf).
NewPacket ==
    /\ phase \in {"Finished", "Wire"}
    /\ ~packet.made
    /\ packet' = [made |-> TRUE, res |-> Packet_new(buf)]
    /\ last' = [op |-> "Packet::new", res |-> IF packet'.res.ok THEN Ok(<<>>) ELSE packet'.res]
    /\ UNCHANGED <<phase, builder, calls, sent, buf, view, cursor>>

\* Whether an iterator panicked.
Panics(items) ==
    \E s \in DOMAIN items : \E i \in 1..Len(items[s]) : items[s][i] = Err("Panic")

\* questions(), answers(), authorities() and additionals() driven to
\* exhaustion, every item converted with try_into_owned.
ReadSections ==
    /\ phase \in {"Finished", "Wire"}
    /\ packet.made /\ packet.res.ok
    /\ cursor.kind = "none"
    /\ ~view.read
    /\ view' = [read |-> TRUE, items |-> PacketItems(packet.res.val),
                val |-> PacketView(packet.res.val)]
    /\ phase' = IF Panics(view'.items) THEN "Panicked" ELSE phase
    /\ last' = [op |-> "read", res |-> IF Panics(view'.items) THEN Err("Panic") ELSE Ok(<<>>)]
    /\ UNCHANGED <<builder, calls, sent, buf, packet, cursor>>

\* The name of the first question converted to its canonical text:
\* String::try_from(&question.name).
QuestionName ==
    /\ phase \in {"Finished", "Wire"}
    /\ packet.made /\ packet.res.ok
    /\ packet.res.val.sections.questions > 0
    /\ last.op # "name"
    /\ parse_question(packet.res.val.packet, packet.res.val.sections.questions_offset).ok
    /\ last' = [op |-> "name",
                res |-> try_into(packet.res.val.packet,
                                 parse_question(packet.res.val.packet,
                                     packet.res.val.sections.questions_offset).val.rec.name)]
    /\ UNCHANGED <<phase, builder, calls, sent, buf, packet, view, cursor>>

(***************************************************************************)
(* packet.rs: the cursors.  A cursor borrows the packet's bytes mutably:   *)
(* while one is open the packet is reached through it alone.               *)
(***************************************************************************)
\* Packet::questions_cursor and Packet::resources_cursor.
OpenCursor(section, op) ==
    /\ phase \in {"Finished", "Wire"}
    /\ packet.made /\ packet.res.ok
    /\ cursor.kind = "none"
    /\ cursor' = [kind |-> section,
                  offset |-> packet.res.val.sections[section \o "_offset"],
                  count |-> packet.res.val.sections[section],
                  pos |-> -1,
                  trues |-> 0]
    /\ last' = [op |-> op, res |-> Ok(<<>>)]
    /\ UNCHANGED <<phase, builder, calls, sent, buf, packet, view>>

questions_cursor == OpenCursor("questions", "questions_cursor")
answers_cursor == OpenCursor("answers", "answers_cursor")
authorities_cursor == OpenCursor("authorities", "authorities_cursor")
additionals_cursor == OpenCursor("additionals", "additionals_cursor")

\* Cursor::next with the section's skip function: the Result and the cursor
\* it leaves.  pos is -1 for None.
Cursor_next(c, pkt) ==
    IF c.count = 0 THEN [res |-> Ok(FALSE), c |-> c]
    ELSE IF c.pos = -1
    THEN [res |-> Ok(TRUE), c |-> [c EXCEPT !.count = @ - 1, !.pos = c.offset]]
    ELSE Let(IF c.kind = "questions" THEN skip_question(pkt, c.pos)
             ELSE skip_resource(pkt, c.pos), LAMBDA n :
         IF ~n.ok THEN [res |-> n, c |-> c]
         ELSE [res |-> Ok(TRUE), c |-> [c EXCEPT !.count = @ - 1, !.pos = n.val]])

\* QuestionsCursor::next and ResourcesCursor::next; trues counts the calls
\* that returned Ok(true) since the cursor was made.
cursor_next ==
    /\ cursor.kind # "none"
    /\ cursor' = [Cursor_next(cursor, packet.res.val.packet).c EXCEPT
                     !.trues = IF Cursor_next(cursor, packet.res.val.packet).res = Ok(TRUE)
                               THEN @ + 1 ELSE @]
    /\ last' = [op |-> "next", res |-> Cursor_next(cursor, packet.res.val.packet).res]
    /\ UNCHANGED <<phase, builder, calls, sent, buf, packet, view>>

\* A set_* body that takes the start of the section for the current record
\* when there is none.
Cursor_set_unchecked(c, pkt, field_at, bytes) ==
    Let(skip_name(pkt, IF c.pos = -1 THEN c.offset ELSE c.pos), LAMBDA n :
        IF ~n.ok THEN [res |-> n, buf |-> pkt, at |-> -1]
        ELSE Let(store_bytes(pkt, n.val + field_at, bytes), LAMBDA s :
             [res |-> s.res, buf |-> s.buf, at |-> n.val + field_at]))

\* The body of the set_* methods: Cursor::pos()?, skip_name()?, then
\* store_bytes at the field `field_at` bytes behind the name.  at is the
\* offset stored at, -1 when none was.
Cursor_set(c, pkt, field_at, bytes) ==
    IF c.pos = -1 THEN [res |-> Err("InvalidCursorState"), buf |-> pkt, at |-> -1]
    ELSE Let(skip_name(pkt, c.pos), LAMBDA n :
         IF ~n.ok THEN [res |-> n, buf |-> pkt, at |-> -1]
         ELSE Let(store_bytes(pkt, n.val + field_at, bytes), LAMBDA s :
              [res |-> s.res, buf |-> s.buf, at |-> n.val + field_at]))

\* A set_* call on the open cursor: last keeps what it stored where, the
\* bytes before it, and the record and field it was meant for.
set_field(op, field_at, bytes, field, value) ==
    /\ packet' = [packet EXCEPT !.res.val.packet =
                     Cursor_set(cursor, packet.res.val.packet, field_at, bytes).buf]
    /\ last' = [op |-> op,
                res |-> Cursor_set(cursor, packet.res.val.packet, field_at, bytes).res,
                at |-> Cursor_set(cursor, packet.res.val.packet, field_at, bytes).at,
                bytes |-> bytes,
                before |-> packet.res.val.packet,
                section |-> cursor.kind,
                index |-> packet.res.val.sections[cursor.kind] - cursor.count,
                field |-> field,
                value |-> value]
    /\ UNCHANGED <<phase, builder, calls, sent, buf, view, cursor>>

QuestionsCursor_set_type(typ) ==
    /\ cursor.kind = "questions"
    /\ set_field("set_type", 0, U16Bytes(MaybeInto(typ)), "typ", typ)

QuestionsCursor_set_class(class) ==
    /\ cursor.kind = "questions"
    /\ set_field("set_class", 2, U16Bytes(MaybeInto(class)), "class", class)

ResourcesCursor_set_class(class) ==
    /\ cursor.kind \in {"answers", "authorities", "additionals"}
    /\ set_field("set_class", 2, U16Bytes(MaybeInto(class)), "class", class)

ResourcesCursor_set_ttl(ttl) ==
    /\ cursor.kind \in {"answers", "authorities", "additionals"}
    /\ set_field("set_ttl", 2 + 2, U32Bytes(ttl), "ttl", ttl)

\* The body of question() and resource(): Cursor::pos()?, then the record
\* parsed at that offset.
Cursor_get(c, pkt) ==
    IF c.pos = -1 THEN Err("InvalidCursorState")
    ELSE Try(IF c.kind = "questions" THEN parse_question(pkt, c.pos)
             ELSE parse_resource(pkt, c.pos), LAMBDA r : Ok(r.rec))

get_record(op) ==
    /\ last' = [op |-> op,
                res |-> Cursor_get(cursor, packet.res.val.packet),
                before |-> packet.res.val.packet,
                section |-> cursor.kind]
    /\ UNCHANGED <<phase, builder, calls, sent, buf, packet, view, cursor>>

QuestionsCursor_question ==
    /\ cursor.kind = "questions"
    /\ get_record("question")

ResourcesCursor_resource ==
    /\ cursor.kind \in {"answers", "authorities", "additionals"}
    /\ get_record("resource")

\* The cursor goes out of scope.
DropCursor ==
    /\ cursor.kind # "none"
    /\ cursor' = NoCursor
    /\ last' = [op |-> "drop", res |-> Ok(<<>>)]
    /\ UNCHANGED <<phase, builder, calls, sent, buf, packet, view>>

(***************************************************************************)
(* Spec: a Builder on an empty Cursor<Vec<u8>> driven through its phases   *)
(* with records of every ResourceData variant, then the finished buffer    *)
(* parsed and read.                                                        *)
(***************************************************************************)
\* At most this many records are written into one message.
MaxRecords == 2

NameRoot == <<46>>
NameA == <<97, 46>>
NameBA == <<98, 46, 97, 46>>

Headers ==
    { [id |-> 1145, resp |-> FALSE, opcode |-> 0, rcode |-> Known(0), flags |-> 256],
      [id |-> 114, resp |-> TRUE, opcode |-> 0, rcode |-> Known(5), flags |-> 384] }

Questions ==
    { [name |-> n, typ |-> Known(TypeA), class |-> Known(1)] : n \in {NameRoot, NameA, NameBA} }
    \cup { [name |-> NameA, typ |-> Unknown(99), class |-> Unknown(7)] }

ResourceDatas ==
    { [kind |-> "A", a |-> <<127, 0, 0, 1>>],
      [kind |-> "AAAA", aaaa |-> <<0, 1, 0, 2, 0, 3, 0, 4, 0, 5, 0, 6, 0, 7, 255, 8>>],
      [kind |-> "NS", ns |-> NameBA],
      [kind |-> "CNAME", cname |-> NameA],
      [kind |-> "PTR", ptr |-> NameA],
      [kind |-> "MX", preference |-> 10, mx |-> NameBA],
      [kind |-> "SOA", ns |-> NameBA, mbox |-> NameA, serial |-> <<65535, 65535>>,
       refresh |-> <<1, 0>>, retry |-> <<0, 255>>, expire |-> <<0, 0>>, min_ttl |-> <<256, 1>>],
      [kind |-> "TXT", txt |-> << <<120>>, <<121, 122>> >>],
      [kind |-> "SRV", priority |-> 1, weight |-> 256, port |-> 53, target |-> NameA],
      [kind |-> "Unknown", typ |-> Unknown(99), data |-> <<1, 2, 3>>] }

Resources ==
    { [name |-> IF d.kind \in {"A", "CNAME", "SOA"} THEN NameBA
                ELSE IF d.kind = "PTR" THEN NameRoot ELSE NameA,
       class |-> IF d.kind = "Unknown" THEN Unknown(7) ELSE Known(1),
       ttl |-> IF d.kind = "A" THEN <<65535, 65535>> ELSE <<0, 255>>,
       data |-> d] : d \in ResourceDatas }

TotalCalls == calls.questions + calls.answers + calls.authorities + calls.additionals

Init == InitBuilder(VecSink)

Next ==
    \/ \E h \in Headers : write_header(h)
    \/ \E q \in Questions : TotalCalls < MaxRecords /\ write_question(q, TRUE)
    \/ finish_questions
    \/ \E r \in Resources : TotalCalls < MaxRecords /\ write_answer(r, TRUE)
    \/ finish_answers
    \/ \E r \in Resources : TotalCalls < MaxRecords /\ write_authority(r, TRUE)
    \/ finish_authorities
    \/ \E r \in Resources : TotalCalls < MaxRecords /\ write_additional(r, TRUE)
    \/ finish_additionals
    \/ NewPacket
    \/ ReadSections

Spec == Init /\ [][Next]_vars


(***************************************************************************)
(* DeepSpec: questions whose names extend one another by one label         *)
(* ("a.", "b.a.", "c.b.a.", ...), so that each is written as one label and *)
(* a pointer to the one before.                                            *)
(***************************************************************************)
\* The deepest name has this many labels.
MaxDepth == 13

\* The name of k one-byte labels ending in "a.": the k-th letter first.
RECURSIVE ChainName(_)
ChainName(k) == IF k = 0 THEN <<>> ELSE <<96 + k, 46>> \o ChainName(k - 1)

\* How many names of the chain have been written: one suffix is remembered
\* for each.
Depth == Cardinality(DOMAIN builder.name_ptrs)

DeepQuestions ==
    { [name |-> ChainName(k), typ |-> Known(TypeA), class |-> Known(1)] :
        k \in {k \in {Depth, Depth + 1} : k >= 1 /\ k <= MaxDepth} }

DeepNext ==
    \/ \E h \in Headers : h.resp /\ write_header(h)
    \/ \E q \in DeepQuestions : calls.questions < MaxDepth /\ write_question(q, TRUE)
    \/ finish_questions
    \/ finish_answers
    \/ finish_authorities
    \/ finish_additionals
    \/ NewPacket
    \/ ReadSections

DeepSpec == Init /\ [][DeepNext]_vars

(***************************************************************************)
(* CountSpec: a Builder on the header-window sink given the same smallest  *)
(* record again and again, up to one call past the range of the u16        *)
(* section counters.                                                       *)
(***************************************************************************)
\* At most this many write_question calls.
MaxQuestionCalls == 65536

RootQuestion == [name |-> NameRoot, typ |-> Known(TypeA), class |-> Known(1)]

CountInit == InitBuilder(HeadSink)

CountNext ==
    \/ \E h \in Headers : h.resp /\ write_header(h)
    \/ calls.questions < MaxQuestionCalls /\ write_question(RootQuestion, FALSE)
    \/ finish_questions
    \/ finish_answers
    \/ finish_authorities
    \/ finish_additionals

CountSpec == CountInit /\ [][CountNext]_vars

(***************************************************************************)
(* HeaderSpec: every header of a family written, the empty message         *)
(* finished and parsed, and the header read back.                          *)
(***************************************************************************)
AllHeaders ==
    [id : {1145, 65535},
     resp : BOOLEAN,
     opcode : {0, 1, 2, 5, 7, 8, 15, 17},
     rcode : {Known(0), Known(5), Unknown(15), Unknown(19)},
     flags : {0, 16, 32, 64, 128, 256, 512, 1024, 384, 2032}]

\* Packet::header() on the accepted packet.
ReadHeader ==
    /\ packet.made /\ packet.res.ok
    /\ last.op # "header"
    /\ last' = [op |-> "header", res |-> Packet_header(packet.res.val.packet)]
    /\ UNCHANGED <<phase, builder, calls, sent, buf, packet, view, cursor>>

HeaderNext ==
    \/ \E h \in AllHeaders : write_header(h)
    \/ finish_questions
    \/ finish_answers
    \/ finish_authorities
    \/ finish_additionals
    \/ NewPacket
    \/ ReadHeader

HeaderSpec == Init /\ [][HeaderNext]_vars

(***************************************************************************)
(* WireSpec: buffers received from the network rather than built: a        *)
(* question and a record cut short or followed by extra bytes, and         *)
(* question names that reach through chains of pointers.                   *)
(***************************************************************************)
\* A record's data is at most this long.
MaxData == 5
\* A name's pointer chain has at most this many pointers before it ends.
MaxChain == 12

WireHeader(questions, answers) ==
    <<0, 0, 0, 0>> \o U16Bytes(questions) \o U16Bytes(answers) \o <<0, 0, 0, 0>>

\* A compression pointer to target.
Ptr(target) == <<192 + target \div 256, target % 256>>

WireQuestion(name) == name \o U16Bytes(TypeA) \o U16Bytes(1)

WireResource(typ, declared, data) ==
    <<0>> \o U16Bytes(typ) \o U16Bytes(1) \o <<0, 0, 0, 60>> \o U16Bytes(declared) \o data

\* The first n bytes of the label "a" and the root, then zeros.
DataBytes(n) == SubSeq(<<1, 97, 0, 0, 0, 0, 0, 0>>, 1, n)

\* A message of at most one question and one record whose data has the
\* length it declares, then one more byte.
Framed(questions, answers, typ, declared) ==
    WireHeader(questions, answers)
    \o (IF questions = 1 THEN WireQuestion(<<0>>) ELSE <<>>)
    \o (IF answers = 1 THEN WireResource(typ, declared, DataBytes(declared)) ELSE <<>>)
    \o <<0>>

\* Every cut of those messages that keeps the header.
FramedBuffers ==
    UNION { { SubSeq(Framed(q, a, typ, d), 1, n) : n \in 12..Len(Framed(q, a, typ, d)) } :
            q \in 0..1, a \in 0..1, typ \in {TypeA, TypeCNAME, TypeMX, TypeTXT, 99},
            d \in 0..MaxData }

\* The labels put before the first pointer of a chain: none, "a", "." and a
\* byte that is not UTF-8.
ChainLabels == { <<>>, <<1, 97>>, <<1, 46>>, <<1, 255>> }

\* Where the data of the record behind a question of that name length is.
ChainData(nameLen) == 12 + nameLen + 4 + 11

\* n pointers in a row, the first at offset at, each to the two bytes behind it.
RECURSIVE PtrRun(_, _)
PtrRun(at, n) == IF n = 0 THEN <<>> ELSE Ptr(at + 2) \o PtrRun(at + 2, n - 1)

\* A question whose name is label, then k pointers in a row (the first in
\* the question, the others in the data of an unknown-type record), then
\* end: the root, or one more pointer that closes a cycle at the question
\* ("first"), at the record's data ("data") or at itself ("self").
Chained(label, k, end) ==
    IF k = 0 THEN WireHeader(1, 0) \o WireQuestion(label \o <<0>>)
    ELSE Let(ChainData(Len(label) + 2), LAMBDA data :
         Let(PtrRun(data, k - 1)
             \o (CASE end = "root" -> <<0>>
                   [] end = "first" -> Ptr(12)
                   [] end = "data" -> Ptr(data)
                   [] OTHER -> Ptr(data + 2 * (k - 1))), LAMBDA body :
             WireHeader(1, 1) \o WireQuestion(label \o Ptr(data))
             \o WireResource(99, Len(body), body)))

ChainedBuffers ==
    { Chained(label, k, end) :
        label \in ChainLabels, k \in 0..MaxChain, end \in {"root", "first", "data", "self"} }

WireInit ==
    /\ phase = "Wire"
    /\ builder = Builder_new(VecSink)
    /\ calls = NoCalls
    /\ sent = NoSent
    /\ buf \in FramedBuffers \cup ChainedBuffers
    /\ packet = NoPacket
    /\ view = NoView
    /\ cursor = NoCursor
    /\ last = Nothing

WireNext ==
    \/ NewPacket
    \/ ReadSections
    \/ QuestionName

WireSpec == WireInit /\ [][WireNext]_vars


(***************************************************************************)
(* CursorSpec: received messages edited in place through the cursors: a    *)
(* compressed answer to a question, two messages with a name that points   *)
(* into a fixed field of another record, and a question cut short.         *)
(***************************************************************************)
WireNamed(name, typ, data) ==
    name \o U16Bytes(typ) \o U16Bytes(1) \o <<0, 0, 0, 60>> \o U16Bytes(Len(data)) \o data

\* "a." asked, answered by a CNAME record that names it twice by pointer.
Answered ==
    WireHeader(1, 1) \o WireQuestion(<<1, 97, 0>>) \o WireNamed(Ptr(12), TypeCNAME, Ptr(12))

\* A question whose name points at the TTL of the record behind it.
IntoTtl ==
    WireHeader(1, 1) \o WireQuestion(Ptr(12 + 2 + 4 + 1 + 2 + 2))
    \o WireNamed(<<0>>, TypeA, <<1, 2, 3, 4>>)

\* A record whose name points at the type of the question before it.
IntoType ==
    WireHeader(1, 1) \o WireQuestion(<<0>>) \o WireNamed(Ptr(12 + 1), TypeA, <<1, 2, 3, 4>>)

\* A question cut behind its name.
CutQuestion == WireHeader(1, 0) \o <<0>>

CursorBuffers == {Answered, IntoTtl, IntoType, CutQuestion}

\* What the set_* calls are given: 353 is the label "a" when read as a name.
TypeEdits == {Known(TypeNS), Unknown(353)}
ClassEdits == {Unknown(353)}
TtlEdits == {<<353, 0>>}

CursorInit ==
    /\ phase = "Wire"
    /\ builder = Builder_new(VecSink)
    /\ calls = NoCalls
    /\ sent = NoSent
    /\ buf \in CursorBuffers
    /\ packet = NoPacket
    /\ view = NoView
    /\ cursor = NoCursor
    /\ last = Nothing

CursorNext ==
    \/ NewPacket
    \/ ReadSections
    \/ questions_cursor
    \/ answers_cursor
    \/ authorities_cursor
    \/ additionals_cursor
    \/ cursor_next
    \/ \E typ \in TypeEdits : QuestionsCursor_set_type(typ)
    \/ \E class \in ClassEdits : QuestionsCursor_set_class(class)
    \/ \E class \in ClassEdits : ResourcesCursor_set_class(class)
    \/ \E ttl \in TtlEdits : ResourcesCursor_set_ttl(ttl)
    \/ QuestionsCursor_question
    \/ ResourcesCursor_resource
    \/ DropCursor

CursorSpec == CursorInit /\ [][CursorNext]_vars

(***************************************************************************)
(* NameSpec: questions whose names share suffixes, written into an empty   *)
(* Cursor<Vec<u8>> or, behind enough root questions to pass the reach of a *)
(* pointer, into the header-window sink.                                   *)
(***************************************************************************)
\* At most this many questions with a name other than the root.
MaxNamed == 2
\* At most this many root questions, and how many of them come first when
\* the sink is the header window.
MaxFill == 3277
FillFirst == 3265

NameC == <<99, 46>>
NameBC == <<98, 46, 99, 46>>
NameABC == <<97, 46, 98, 46, 99, 46>>

NamedQuestions ==
    { [name |-> n, typ |-> Known(TypeA), class |-> Known(1)] : n \in {NameA, NameC, NameBC, NameABC} }

NameInit == \E sink \in {VecSink, HeadSink} : InitBuilder(sink)

NameNext ==
    \/ \E h \in Headers : h.resp /\ write_header(h)
    \/ /\ builder.writer.kind = "head"
       /\ calls.questions - Len(sent.questions) < MaxFill
       /\ write_question(RootQuestion, FALSE)
    \/ \E q \in NamedQuestions :
          /\ Len(sent.questions) < MaxNamed
          /\ builder.writer.kind = "head" => calls.questions >= FillFirst
          /\ write_question(q, TRUE)
    \/ finish_questions

NameSpec == NameInit /\ [][NameNext]_vars

(***************************************************************************)
(* LengthSpec: resources whose bodies hold no name, among them bodies one  *)
(* byte past the range of the 16-bit length field, written into the sink   *)
(* that keeps the bytes up to the first length field.                      *)
(***************************************************************************)
\* The longest body, in bytes.
MaxBody == 65536
\* At most this many resources.
MaxBodies == 2

\* n bytes; n strings of 255 bytes.
Bytes(n) == [i \in 1..n |-> i % 251]
Strings(n) == [i \in 1..n |-> Bytes(255)]

BodyDatas ==
    { [kind |-> "Unknown", typ |-> Unknown(99), data |-> Bytes(n)] : n \in {0, 3, MaxBody} }
    \cup { [kind |-> "TXT", txt |-> Strings(n)] : n \in {1, 2} }
    \cup { [kind |-> "A", a |-> <<127, 0, 0, 1>>] }

BodyResources ==
    { [name |-> NameRoot, class |-> Known(1), ttl |-> <<0, 255>>, data |-> d] : d \in BodyDatas }

LengthNext ==
    \/ \E h \in Headers : h.resp /\ write_header(h)
    \/ finish_questions
    \/ \E r \in BodyResources : TotalCalls < MaxBodies /\ write_answer(r, FALSE)
    \/ finish_answers
    \/ \E r \in BodyResources : TotalCalls < MaxBodies /\ write_authority(r, FALSE)
    \/ finish_authorities
    \/ \E r \in BodyResources : TotalCalls < MaxBodies /\ write_additional(r, FALSE)
    \/ finish_additionals

LengthInit == InitBuilder(FrontSink)

LengthSpec == LengthInit /\ [][LengthNext]_vars

(***************************************************************************)
(* RegionSpec: received buffers whose first answer is of a known type and  *)
(* declares a data region shorter or longer than its fields, cut short in  *)
(* the data or followed by more records.                                   *)
(***************************************************************************)
\* The declared length exceeds the fields of the type by at most this much.
MaxExtra == 1
\* At most this many records follow the first answer.
MaxTail == 2

\* The data of each type with every field in place; names are the root.
FullData(typ) ==
    CASE typ = TypeA -> <<127, 0, 0, 1>>
      [] typ = TypeAAAA -> <<0, 1, 0, 2, 0, 3, 0, 4, 0, 5, 0, 6, 0, 7, 255, 8>>
      [] typ = TypeMX -> <<0, 10, 0>>
      [] typ = TypeSRV -> <<0, 1, 1, 0, 0, 53, 0>>
      [] typ = TypeSOA -> <<0, 0>> \o <<0, 0, 0, 1, 0, 0, 0, 2, 0, 0, 0, 3, 0, 0, 0, 4, 0, 0, 0, 5>>
      [] OTHER -> <<2, 120, 121, 1, 122>>

\* n empty records of an unknown type.
RECURSIVE TailRecords(_)
TailRecords(n) == IF n = 0 THEN <<>> ELSE WireResource(99, 0, <<>>) \o TailRecords(n - 1)

\* A message whose first answer declares `declared` bytes of data, holds
\* the first `present` of them, and is followed by `tail` empty records.
Region(typ, declared, present, tail) ==
    WireHeader(0, 1 + tail)
    \o WireResource(typ, declared,
                    SubSeq(FullData(typ) \o [i \in 1..MaxExtra |-> 0], 1, present))
    \o TailRecords(tail)

RegionBuffers ==
    UNION { UNION { { Region(typ, d, p, 0) : p \in 0..d }
                    \cup { Region(typ, d, d, t) : t \in 1..MaxTail } :
                    d \in 0..(Len(FullData(typ)) + MaxExtra) } :
            typ \in {TypeA, TypeAAAA, TypeMX, TypeSRV, TypeSOA, TypeTXT} }

RegionInit ==
    /\ phase = "Wire"
    /\ builder = Builder_new(VecSink)
    /\ calls = NoCalls
    /\ sent = NoSent
    /\ buf \in RegionBuffers
    /\ packet = NoPacket
    /\ view = NoView
    /\ cursor = NoCursor
    /\ last = Nothing

RegionNext ==
    \/ NewPacket
    \/ ReadSections

RegionSpec == RegionInit /\ [][RegionNext]_vars

(***************************************************************************)
(* AdvanceSpec: the buffers of RegionSpec walked with the cursors of their *)
(* sections, the current record read after every step.                     *)
(***************************************************************************)
AdvanceNext ==
    \/ NewPacket
    \/ questions_cursor
    \/ answers_cursor
    \/ cursor_next
    \/ QuestionsCursor_question
    \/ ResourcesCursor_resource
    \/ DropCursor

AdvanceSpec == RegionInit /\ [][AdvanceNext]_vars

(***************************************************************************)
(* RejectSpec: questions whose names are well formed, lack the final dot,  *)
(* hold a label of no byte or of 64 bytes and more, or are longer than a   *)
(* name may be on the wire, written into an empty Cursor<Vec<u8>>.         *)
(***************************************************************************)
\* At most this many write_question calls.
MaxAsked == 2

\* A label of n bytes, and labels joined into a canonical name.
Label(n) == [i \in 1..n |-> 97 + (n % 7)]

RECURSIVE Dotted(_)
Dotted(labels) == IF labels = <<>> THEN <<>> ELSE Head(labels) \o <<46>> \o Dotted(Tail(labels))

\* Names without the final dot: "", "a", "a.b", ".a".
NonCanonicalNames == { <<>>, <<97>>, <<97, 46, 98>>, <<46, 97>> }

\* Names with a label out of size: "..", ".a.", "a..", "a..b.", labels of 64
\* and 65 bytes, and names with two such labels.
BadLabelNames ==
    { <<46, 46>>, <<46, 97, 46>>, <<97, 46, 46>>, <<97, 46, 46, 98, 46>>,
      Dotted(<<Label(64)>>), Dotted(<<Label(65)>>), Dotted(<<Label(1), Label(64)>>),
      Dotted(<<Label(1), Label(64), <<>> >>), Dotted(<<Label(1), <<>>, Label(64)>>) }

\* Names whose labels are in size, of 255, 256 and 257 bytes on the wire.
LongNames == { Dotted(<<Label(63), Label(63), Label(63), Label(n)>>) : n \in 61..63 }

RejectQuestions ==
    { [name |-> n, typ |-> Known(TypeA), class |-> Known(1)] :
        n \in {NameRoot, NameA, NameBA, Dotted(<<Label(63)>>)}
              \cup NonCanonicalNames \cup BadLabelNames \cup LongNames }

RejectNext ==
    \/ \E h \in Headers : write_header(h)
    \/ \E q \in RejectQuestions : calls.questions < MaxAsked /\ write_question(q, TRUE)
    \/ finish_questions

RejectSpec == Init /\ [][RejectNext]_vars

(***************************************************************************)
(* PassSpec: a received record of a type the parser has no arm for, read,  *)
(* handed to a Builder as it was read, and the built message read again.   *)
(***************************************************************************)
\* The data region of the received record declares at most this many bytes.
MaxPass == 3

\* Where the data region of the first answer of a message without questions
\* ends.
FirstLimitOf(b) == 23 + U16From(SubSeq(b, 22, 23))

\* Type codes without an arm in parse_resource_data: codes that are no
\* member of Type, and the members OPT, WKS and ALL.
PassTypes == {0, 99, 65535, 41, 11, 255}

\* A message whose only record declares `declared` bytes of data and holds
\* the first `present` of them.
Passed(typ, declared, present) ==
    WireHeader(0, 1) \o WireResource(typ, declared, SubSeq(<<192, 12, 255, 0>>, 1, present))

PassBuffers ==
    { Passed(typ, d, p) : typ \in PassTypes, d \in 0..MaxPass, p \in 0..MaxPass }

PassInit ==
    /\ phase = "Wire"
    /\ builder = Builder_new(VecSink)
    /\ calls = NoCalls
    /\ sent = NoSent
    /\ buf \in {b \in PassBuffers : Len(b) <= FirstLimitOf(b)}
    /\ packet = NoPacket
    /\ view = NoView
    /\ cursor = NoCursor
    /\ last = Nothing

\* The caller takes the record it read to a new Builder.
Relay ==
    /\ phase = "Wire"
    /\ view.read /\ view.val.answers[1].ok
    /\ phase' = "WantsHeader"
    /\ packet' = NoPacket
    /\ view' = NoView
    /\ last' = [op |-> "relay", res |-> Ok(<<>>)]
    /\ UNCHANGED <<builder, calls, sent, buf, cursor>>

\* The first answer of the received buffer in owned form.
Relayed == PacketView(Packet_new(buf).val).answers[1].val

PassNext ==
    \/ NewPacket
    \/ ReadSections
    \/ Relay
    \/ \E h \in Headers : write_header(h)
    \/ finish_questions
    \/ phase = "WantsAnswers" /\ calls.answers = 0 /\ write_answer(Relayed, TRUE)
    \/ calls.answers = 1 /\ finish_answers
    \/ finish_authorities
    \/ finish_additionals

PassSpec == PassInit /\ [][PassNext]_vars

(***************************************************************************)
(* OriginSpec: the Builder of Spec on a Cursor<Vec<u8>> that already holds *)
(* bytes and stands behind some or all of them.                            *)
(***************************************************************************)
\* The bytes in the sink before the Builder is made.
OriginPrefix == <<7, 8, 9>>

\* The sink behind its one byte, behind its three bytes, and behind the
\* first of its three bytes.
OriginSinks ==
    { [data |-> SubSeq(OriginPrefix, 1, n), pos |-> p, kind |-> "vec"] :
        n \in {1, Len(OriginPrefix)}, p \in {1, Len(OriginPrefix)} }

OriginInit == \E sink \in {w \in OriginSinks : w.pos <= Len(w.data)} : InitBuilder(sink)

\* Records whose names share suffixes.
OriginQuestions == {q \in Questions : q.typ = Known(TypeA) /\ q.name # NameRoot}
OriginResources == {r \in Resources : r.data.kind \in {"NS", "MX", "A"}}

OriginNext ==
    \/ \E h \in Headers : write_header(h)
    \/ \E q \in OriginQuestions : TotalCalls < MaxRecords /\ write_question(q, TRUE)
    \/ finish_questions
    \/ \E r \in OriginResources : TotalCalls < MaxRecords /\ write_answer(r, TRUE)
    \/ finish_answers
    \/ \E r \in OriginResources : TotalCalls < MaxRecords /\ write_authority(r, TRUE)
    \/ finish_authorities
    \/ \E r \in OriginResources : TotalCalls < MaxRecords /\ write_additional(r, TRUE)
    \/ finish_additionals

OriginSpec == OriginInit /\ [][OriginNext]_vars

(***************************************************************************)
(* CodecSpec: lib.rs, MaybeUnknown over the enumerations Type, Class and   *)
(* RCode with their members by name: every 16-bit value decoded, and the   *)
(* decoded value encoded.                                                  *)
(***************************************************************************)
\* The largest value decoded.
MaxValue == 65535

\* The members of each enumeration and their discriminants.
Members ==
    [Type |-> [A |-> 1, NS |-> 2, CNAME |-> 5, SOA |-> 6, PTR |-> 12, MX |-> 15,
               TXT |-> 16, AAAA |-> 28, SRV |-> 33, OPT |-> 41, WKS |-> 11,
               HINFO |-> 13, MINFO |-> 14, AXFR |-> 252, ALL |-> 255],
     Class |-> [INET |-> 1, CSNET |-> 2, CHAOS |-> 3, HESIOD |-> 4, ANY |-> 255],
     RCode |-> [Success |-> 0, FormatError |-> 1, ServerFailure |-> 2,
                NameError |-> 3, NotImplemented |-> 4, Refused |-> 5]]

\* A try_from_primitive that looks at the low byte of the value only.
try_from_primitive_u8(members, value) ==
    IF \E e \in DOMAIN members : members[e] = value % 256
    THEN Ok(CHOOSE e \in DOMAIN members : members[e] = value % 256)
    ELSE Err("TryFromPrimitiveError")

\* T::try_from_primitive(value), derived by num_enum: the member with that
\* discriminant.
try_from_primitive(members, value) ==
    IF \E e \in DOMAIN members : members[e] = value
    THEN Ok(CHOOSE e \in DOMAIN members : members[e] = value)
    ELSE Err("TryFromPrimitiveError")

\* MaybeUnknown::from(value) and MaybeUnknown::into(self) with the members
\* of T by name.
MaybeUnknown_from(members, value) ==
    Let(try_from_primitive(members, value), LAMBDA r :
        IF r.ok THEN Known(r.val) ELSE Unknown(value))

MaybeUnknown_into(members, m) == IF m.k = "Known" THEN members[m.v] ELSE m.v

CodecInit ==
    /\ phase = "Codec"
    /\ builder = Builder_new(VecSink)
    /\ calls = NoCalls
    /\ sent = NoSent
    /\ buf = <<>>
    /\ packet = NoPacket
    /\ view = NoView
    /\ cursor = NoCursor
    /\ last \in [op : {"value"}, enum : DOMAIN Members, v : 0..MaxValue]

Decode ==
    /\ last.op = "value"
    /\ last' = [op |-> "from", enum |-> last.enum, v |-> last.v,
                res |-> MaybeUnknown_from(Members[last.enum], last.v)]
    /\ UNCHANGED <<phase, builder, calls, sent, buf, packet, view, cursor>>

Encode ==
    /\ last.op = "from"
    /\ last' = [op |-> "into", enum |-> last.enum, v |-> last.v, res |-> last.res,
                back |-> MaybeUnknown_into(Members[last.enum], last.res)]
    /\ UNCHANGED <<phase, builder, calls, sent, buf, packet, view, cursor>>

CodecNext ==
    \/ Decode
    \/ Encode

CodecSpec == CodecInit /\ [][CodecNext]_vars

(***************************************************************************)
(* SegmentsSpec: packet.rs, the iterator NameVisitor::segments() of a name *)
(* visitor at any offset of any short buffer, driven until it returns      *)
(* None: a caller that consumes it whole (count(), collect(), for_each).   *)
(***************************************************************************)
\* The longest buffer a name is read from.
MaxSegments == 3

\* Length bytes, a reserved length byte, pointer bytes and a letter.
SegmentBytes == {0, 1, 2, 64, 192, 97}

SegmentBuffers == UNION { [1..n -> SegmentBytes] : n \in 0..MaxSegments }

\* The captured state of the closure of segments(): offset and ptr_count.
Segments(offset) == [offset |-> offset, ptr_count |-> 0]

SegmentsInit ==
    /\ phase = "Segments"
    /\ builder = Builder_new(VecSink)
    /\ calls = NoCalls
    /\ sent = NoSent
    /\ buf \in SegmentBuffers
    /\ packet = NoPacket
    /\ view = NoView
    /\ cursor \in { Segments(offset) : offset \in 0..MaxSegments }
    /\ last = Nothing

\* Iterator::next on the iterator: try_load_segment(..).transpose().  last
\* keeps the item and whether an even number of calls was made.
Segments_next ==
    /\ phase = "Segments"
    /\ ~(last.op = "next" /\ last.res = Ok(<<>>))
    /\ cursor' = [offset |-> try_load_segment(buf, cursor.offset, cursor.ptr_count).offset,
                  ptr_count |-> try_load_segment(buf, cursor.offset, cursor.ptr_count).ptr_count]
    /\ last' = [op |-> "next", res |-> try_load_segment(buf, cursor.offset, cursor.ptr_count).res,
                even |-> IF last.op = "next" THEN ~last.even ELSE FALSE]
    /\ UNCHANGED <<phase, builder, calls, sent, buf, packet, view>>

SegmentsNext == Segments_next

\* The consumer goes on calling next until the iterator ends.
SegmentsSpec == SegmentsInit /\ [][SegmentsNext]_vars /\ WF_vars(Segments_next)

(***************************************************************************)
(* SetHeaderSpec: packet.rs, Packet::set_header on the accepted packet of  *)
(* a built empty message, for every header of the family of HeaderSpec,    *)
(* while the packet still holds the bytes it was made of.                  *)
(***************************************************************************)
\* The flag word set_header computes for a Header.
set_header_bits(header) ==
    BitOr(BitOr(BitAnd(header.flags, HeaderFlagsAll),
                AsU16(BitAnd(header.opcode, 7) * 8)),
          BitAnd(MaybeInto(header.rcode), 15))

\* Packet::set_header(header): the Result and the buffer it leaves.
Packet_set_header(pkt, header) ==
    Let(store_bytes(pkt, 0, U16Bytes(header.id)), LAMBDA id :
    IF ~id.res.ok THEN id
    ELSE store_bytes(id.buf, 2, U16Bytes(set_header_bits(header))))

set_header(header) ==
    /\ packet.made /\ packet.res.ok
    /\ packet.res.val.packet = buf
    /\ packet' = [packet EXCEPT !.res.val.packet =
                     Packet_set_header(packet.res.val.packet, header).buf]
    /\ last' = [op |-> "set_header",
                res |-> Packet_set_header(packet.res.val.packet, header).res,
                header |-> header,
                before |-> packet.res.val.packet]
    /\ UNCHANGED <<phase, builder, calls, sent, buf, view, cursor>>

SetHeaderNext ==
    \/ \E h \in Headers : write_header(h)
    \/ finish_questions
    \/ finish_answers
    \/ finish_authorities
    \/ finish_additionals
    \/ NewPacket
    \/ \E h \in AllHeaders : set_header(h)
    \/ ReadHeader

SetHeaderSpec == Init /\ [][SetHeaderNext]_vars

(***************************************************************************)
(* EmbedSpec: received buffers whose first answer is of a type with an     *)
(* embedded name and declares a data region that ends before, inside or    *)
(* behind that name, followed by more records or by nothing.               *)
(***************************************************************************)
EmbedTypes == {TypeNS, TypeCNAME, TypePTR, TypeMX, TypeSOA, TypeSRV}

\* Embedded names: the root, "a." and a pointer to the owner name.
EmbedNames == { <<0>>, <<1, 97, 0>>, Ptr(12) }

\* The data of each type with every field in place.
EmbedData(typ, name) ==
    CASE typ = TypeMX -> <<0, 10>> \o name
      [] typ = TypeSRV -> <<0, 1, 1, 0, 0, 53>> \o name
      [] typ = TypeSOA ->
            name \o name \o <<0, 0, 0, 1, 0, 0, 0, 2, 0, 0, 0, 3, 0, 0, 0, 4, 0, 0, 0, 5>>
      [] OTHER -> name

\* A message whose first answer declares, and holds, the first `declared`
\* bytes of its data and is followed by `tail` empty records.
Embedded(typ, name, declared, tail) ==
    WireHeader(0, 1 + tail)
    \o WireResource(typ, declared, SubSeq(EmbedData(typ, name), 1, declared))
    \o TailRecords(tail)

EmbedBuffers ==
    UNION { UNION { { Embedded(typ, name, d, t) :
                        d \in 0..Len(EmbedData(typ, name)), t \in 0..MaxTail } :
                    name \in EmbedNames } :
            typ \in EmbedTypes }

EmbedInit ==
    /\ phase = "Wire"
    /\ builder = Builder_new(VecSink)
    /\ calls = NoCalls
    /\ sent = NoSent
    /\ buf \in EmbedBuffers
    /\ packet = NoPacket
    /\ view = NoView
    /\ cursor = NoCursor
    /\ last = Nothing

EmbedSpec == EmbedInit /\ [][RegionNext]_vars

(***************************************************************************)
(* SelfSpec: received buffers of one question whose name is a pointer to   *)
(* its own offset, for every type and class, named or not.                 *)
(***************************************************************************)
SelfQuestion(typ, class) == WireHeader(1, 0) \o Ptr(12) \o U16Bytes(typ) \o U16Bytes(class)

SelfBuffers ==
    { SelfQuestion(typ, class) : typ \in TypeValues \cup {99}, class \in ClassValues \cup {7} }

SelfInit ==
    /\ phase = "Wire"
    /\ builder = Builder_new(VecSink)
    /\ calls = NoCalls
    /\ sent = NoSent
    /\ buf \in SelfBuffers
    /\ packet = NoPacket
    /\ view = NoView
    /\ cursor = NoCursor
    /\ last = Nothing

SelfSpec == SelfInit /\ [][WireNext]_vars

(***************************************************************************)
(* The same message with every name written in full: the encoding the      *)
(* compressed output is compared with.                                     *)
(***************************************************************************)
\* The labels of a canonical name, each behind its length, then the root.
RECURSIVE PlainLabels(_, _, _)
PlainLabels(name, begin, idxs) ==
    IF idxs = <<>> THEN <<0>>
    ELSE <<Head(idxs) - begin>> \o SubSeq(name, begin + 1, Head(idxs))
         \o PlainLabels(name, Head(idxs) + 1, Tail(idxs))

PlainName(name) == IF name = <<46>> THEN <<0>> ELSE PlainLabels(name, 0, dot_indexes(name))

RECURSIVE PlainNames(_)
PlainNames(names) == IF names = <<>> THEN <<>> ELSE PlainName(Head(names)) \o PlainNames(Tail(names))

RECURSIVE PlainTexts(_)
PlainTexts(txt) == IF txt = <<>> THEN <<>> ELSE <<Len(Head(txt))>> \o Head(txt) \o PlainTexts(Tail(txt))

PlainBody(data) ==
    IF data.kind = "TXT" THEN PlainTexts(data.txt)
    ELSE BodyBefore(data) \o PlainNames(DataNames(data)) \o BodyAfter(data)

PlainQuestion(q) == PlainName(q.name) \o U16Bytes(MaybeInto(q.typ)) \o U16Bytes(MaybeInto(q.class))

PlainResource(r) ==
    PlainName(r.name) \o U16Bytes(MaybeInto(ResourceType(r.data)))
    \o U16Bytes(MaybeInto(r.class)) \o U32Bytes(r.ttl)
    \o U16Bytes(Len(PlainBody(r.data))) \o PlainBody(r.data)

RECURSIVE PlainRecords(_, _)
PlainRecords(records, isQuestion) ==
    IF records = <<>> THEN <<>>
    ELSE (IF isQuestion THEN PlainQuestion(Head(records)) ELSE PlainResource(Head(records)))
         \o PlainRecords(Tail(records), isQuestion)

\* The message of a header and four record lists, without compression.
PlainMessage(m) ==
    U16Bytes(m.header.id) \o U16Bytes(header_bits(m.header))
    \o U16Bytes(Len(m.questions)) \o U16Bytes(Len(m.answers))
    \o U16Bytes(Len(m.authorities)) \o U16Bytes(Len(m.additionals))
    \o PlainRecords(m.questions, TRUE) \o PlainRecords(m.answers, FALSE)
    \o PlainRecords(m.authorities, FALSE) \o PlainRecords(m.additionals, FALSE)

Sections == {"questions", "answers", "authorities", "additionals"}

(***************************************************************************)
(* The claims.                                                             *)
(***************************************************************************)
\* The records given to the write_* calls of a section, as the items a
\* reader should get.
SentItems(section) == [i \in 1..Len(sent[section]) |-> Ok(sent[section][i])]

\* C1: round trip of built messages.  Packet::new accepts the buffer of a
\* finished Builder, and every section read from it yields, in input order,
\* Ok records whose names (as canonical text), type, class, TTL and data
\* equal the records written.
RoundTrip ==
    phase = "Finished" =>
        /\ packet.made => packet.res.ok
        /\ view.read => \A s \in Sections :
              /\ Len(view.val[s]) = Len(sent[s])
              /\ \A i \in 1..Len(sent[s]) : view.val[s][i] = SentItems(s)[i]

\* C2: compression transparency.  Reading the Builder's output yields the
\* same items, hence the same canonical text for every owner and embedded
\* name, as reading the encoding of the same records with every name
\* written in full.
CompressionTransparent ==
    (phase = "Finished" /\ view.read) =>
        /\ Packet_new(PlainMessage(sent)).ok
        /\ \A s \in Sections :
              view.val[s] = PacketView(Packet_new(PlainMessage(sent)).val)[s]

\* C3: length-bound safety.  Packet::new followed by iterating the sections
\* never slices outside the buffer (nothing panics), and a record whose
\* declared data length extends past the end of the buffer makes
\* Packet::new or that record's iterator item return ShortBuffer or
\* PacketSizeMismatch, whatever the record's type.
LengthBoundSafety ==
    /\ phase # "Panicked"
    /\ (/\ phase = "Wire" /\ packet.made /\ packet.res.ok
        /\ packet.res.val.sections.answers = 1
        /\ skip_resource(buf, packet.res.val.sections.answers_offset).val > Len(buf)
        /\ view.read)
       => view.items.answers[1] \in {Err("ShortBuffer"), Err("PacketSizeMismatch")}

\* Where following a name from offset leads, told from the bytes alone: to
\* the root, round a cycle of pointers, or nowhere (a byte that is no label,
\* or the end of the packet); with the number of different pointers on the
\* way and whether a label on it holds a '.' or is not UTF-8.
Path(kind, pointers, bad) == [kind |-> kind, pointers |-> pointers, bad |-> bad]

RECURSIVE PointerPath(_, _, _, _, _)
PointerPath(pkt, offset, seen, pointers, bad) ==
    IF offset >= Len(pkt) THEN Path("broken", pointers, bad)
    ELSE Let(pkt[offset + 1], LAMBDA b :
         CASE b \div 64 = 3 ->
                IF offset \in seen THEN Path("cycle", pointers, bad)
                ELSE IF offset + 1 >= Len(pkt) THEN Path("broken", pointers, bad)
                ELSE PointerPath(pkt, (b % 64) * 256 + pkt[offset + 2],
                                 seen \cup {offset}, pointers + 1, bad)
           [] b \div 64 = 0 ->
                IF b = 0 THEN Path("root", pointers, bad)
                ELSE IF offset + 1 + b > Len(pkt) THEN Path("broken", pointers, bad)
                ELSE PointerPath(pkt, offset + 1 + b, seen, pointers,
                                 \/ bad
                                 \/ 46 \in {pkt[i] : i \in (offset + 2)..(offset + 1 + b)}
                                 \/ ~from_utf8_ok(SubSeq(pkt, offset + 2, offset + 1 + b)))
           [] OTHER -> Path("broken", pointers, bad))

\* The path of the first question's name.
NamePath == PointerPath(buf, 12, {}, 0, FALSE)

\* C4: pointer loop bound.  Resolving one name dereferences at most 10
\* pointers: a name that needs an 11th dereference fails with
\* TooManyPointers, and a name that needs 10 or fewer resolves.
PointerLoopBound ==
    last.op = "name" =>
        /\ last.res.ptr_count <= 10
        /\ (NamePath.kind = "root" /\ ~NamePath.bad) =>
              /\ NamePath.pointers >= 11 => last.res.res = Err("TooManyPointers")
              /\ NamePath.pointers <= 10 => last.res.res.ok

\* C5 as stated: converting a name whose pointer chain forms a cycle returns
\* TooManyPointers.
CycleIsTooManyPointers ==
    (last.op = "name" /\ NamePath.kind = "cycle") => last.res.res = Err("TooManyPointers")

\* C5: pointer-loop safety.  Converting a name whose pointer chain forms a
\* cycle ends after at most 11 dereferences and at most 12 iterator calls for
\* each byte of the buffer, with an error: TooManyPointers, or
\* InvalidNameSegmentBody when a label on the way holds a '.' or is not
\* UTF-8.
CycleFails ==
    (last.op = "name" /\ NamePath.kind = "cycle") =>
        /\ ~last.res.res.ok
        /\ last.res.ptr_count <= 11
        /\ last.res.calls <= 12 * Len(buf)
        /\ last.res.res.err \in {"TooManyPointers", "InvalidNameSegmentBody"}
        /\ last.res.res.err = "InvalidNameSegmentBody" => NamePath.bad

\* A cycle through a label was followed until the pointers ran out.
CycleFollowed ==
    /\ last.op = "name" /\ NamePath.kind = "cycle"
    /\ last.res.res = Err("TooManyPointers")
    /\ last.res.calls > 1

\* C6: Packet::new succeeds if and only if the scan over the four sections
\* ends exactly at the buffer length; a scan that ends before it or behind
\* it makes Packet::new return PacketSizeMismatch.
NewIffScanEndsAtLength ==
    packet.made =>
        /\ packet.res.ok <=> (collect_sections(buf).ok /\ collect_sections(buf).val.offset = Len(buf))
        /\ (collect_sections(buf).ok /\ collect_sections(buf).val.offset # Len(buf))
              => packet.res = Err("PacketSizeMismatch")

\* The offsets a name at offset is read from when it is followed through at
\* most fuel pointers.
RECURSIVE ReadsOf(_, _, _)
ReadsOf(pkt, offset, fuel) ==
    IF offset >= Len(pkt) THEN {}
    ELSE Let(pkt[offset + 1], LAMBDA b :
         CASE b \div 64 = 3 ->
                {offset, offset + 1}
                \cup (IF fuel = 0 \/ offset + 1 >= Len(pkt) THEN {}
                      ELSE ReadsOf(pkt, (b % 64) * 256 + pkt[offset + 2], fuel - 1))
           [] b \div 64 = 0 /\ b # 0 -> (offset..(offset + b)) \cup ReadsOf(pkt, offset + 1 + b, fuel)
           [] OTHER -> {offset})

\* The names of the records an accepted packet's iterators yield.
NamesOf(p) ==
    UNION { UNION { IF PacketItems(p)[s][i].ok
                    THEN {PacketItems(p)[s][i].val.name}
                         \cup (IF s = "questions" THEN {}
                               ELSE {DataNames(PacketItems(p)[s][i].val.data)[j] :
                                       j \in 1..Len(DataNames(PacketItems(p)[s][i].val.data))})
                    ELSE {} : i \in 1..Len(PacketItems(p)[s]) } : s \in Sections }

\* Every offset some name of the packet is read from: no name is followed
\* through more than 11 pointers.
NameReads(p) == UNION { ReadsOf(p.packet, n, 11) : n \in NamesOf(p) }

\* The packet as it was before the last set_* call, and the field's bytes.
PacketBefore == [packet EXCEPT !.res.val.packet = last.before]
FieldRange == last.at..(last.at + Len(last.bytes) - 1)

\* A view with one field of one record replaced.
Edited(v, section, index, field, value) ==
    [s \in Sections |->
        [i \in 1..Len(v[s]) |->
            IF s = section /\ i = index /\ v[s][i].ok
            THEN Ok([v[s][i].val EXCEPT ![field] = value]) ELSE v[s][i]]]

\* The records read from the packet are those read before the last set_*
\* call, but for the field set.
RecordsKept ==
    \A s \in Sections :
        /\ Len(PacketView(packet.res.val)[s]) = Len(PacketView(PacketBefore.res.val)[s])
        /\ \A i \in 1..Len(PacketView(packet.res.val)[s]) :
              PacketView(packet.res.val)[s][i]
              = Edited(PacketView(PacketBefore.res.val), last.section, last.index,
                       last.field, last.value)[s][i]

\* The last set_* call left the length and every byte outside the field it
\* was aimed at, and the packet still parses into the same sections.
FramingKept ==
    /\ Len(packet.res.val.packet) = Len(last.before)
    /\ ~last.res.ok => packet.res.val.packet = last.before
    /\ last.res.ok =>
          /\ last.at = skip_name(last.before, cursor.pos).val
                       + (CASE last.field = "typ" -> 0 [] last.field = "class" -> 2 [] OTHER -> 4)
          /\ \A i \in 1..Len(last.before) :
                (i - 1) \notin FieldRange => packet.res.val.packet[i] = last.before[i]
          /\ SubSeq(packet.res.val.packet, last.at + 1, last.at + Len(last.bytes)) = last.bytes
    /\ Packet_new(packet.res.val.packet) = Ok(packet.res.val)

\* C10 as stated: a set_type, set_class or set_ttl call through a cursor
\* leaves the length and every byte outside the field of the current record,
\* and re-parsing yields the same records with only that field changed.
MutationKeepsRecords ==
    last.op \in {"set_type", "set_class", "set_ttl"} => (FramingKept /\ RecordsKept)

\* C10: in-place mutation preserves framing.  A set_type, set_class or
\* set_ttl call through a cursor leaves the length and every byte outside
\* the field of the current record, and the packet still parses into the
\* same sections; when no name of the packet is read from a byte of that
\* field, re-parsing yields the same records with only that field changed.
MutationKeepsFraming ==
    last.op \in {"set_type", "set_class", "set_ttl"} =>
        /\ FramingKept
        /\ (FieldRange \cap NameReads(PacketBefore.res.val) = {}) => RecordsKept

\* A field no name is read from was set to a new value.
FieldEdited ==
    /\ last.op \in {"set_type", "set_class", "set_ttl"}
    /\ last.res.ok
    /\ packet.res.val.packet # last.before
    /\ FieldRange \cap NameReads(PacketBefore.res.val) = {}
    /\ NamesOf(PacketBefore.res.val) # {}

\* The place of a phase in the Builder's life: the five phase types in
\* order, then the finished buffer; a Builder lost to an Err or a panic
\* has no later operation.
PhaseRank(p) ==
    CASE p = "WantsHeader" -> 0
      [] p = "WantsQuestions" -> 1
      [] p = "WantsAnswers" -> 2
      [] p = "WantsAuthorities" -> 3
      [] p = "WantsAdditionals" -> 4
      [] p \in {"Finished", "Wire"} -> 5
      [] OTHER -> 6

\* The phase an operation needs and the phase it leaves when it succeeds.
PhaseOf(op) ==
    CASE op = "write_header" -> <<"WantsHeader", "WantsQuestions">>
      [] op = "write_question" -> <<"WantsQuestions", "WantsQuestions">>
      [] op = "finish_questions" -> <<"WantsQuestions", "WantsAnswers">>
      [] op = "write_answer" -> <<"WantsAnswers", "WantsAnswers">>
      [] op = "finish_answers" -> <<"WantsAnswers", "WantsAuthorities">>
      [] op = "write_authority" -> <<"WantsAuthorities", "WantsAuthorities">>
      [] op = "finish_authorities" -> <<"WantsAuthorities", "WantsAdditionals">>
      [] op = "write_additional" -> <<"WantsAdditionals", "WantsAdditionals">>
      [] op = "finish_additionals" -> <<"WantsAdditionals", "Finished">>

BuilderOps ==
    {"write_header", "write_question", "finish_questions", "write_answer", "finish_answers",
     "write_authority", "finish_authorities", "write_additional", "finish_additionals"}

\* C11: builder phase ordering.  Every successful operation of a Builder
\* is taken in the phase it belongs to and leaves the phase that follows,
\* and the phase never goes back: the header comes first, then the
\* questions, finish_questions, the answers, finish_answers, the
\* authorities, finish_authorities, the additionals, finish_additionals; no
\* write_* of a section and no second finish_* follows that section's
\* finish_*.
PhaseOrdering ==
    [][/\ PhaseRank(phase') >= PhaseRank(phase)
       /\ (last'.op \in BuilderOps /\ last'.res.ok) =>
             /\ phase = PhaseOf(last'.op)[1]
             /\ phase' = PhaseOf(last'.op)[2]]_vars

\* A message with a record in its first and in its last section was
\* finished.
AllPhasesPassed ==
    /\ phase = "Finished"
    /\ calls.questions > 0
    /\ calls.additionals > 0

\* The length of the label of name that starts at the 0-based index begin.
LabelLen(name, begin) ==
    CHOOSE n \in 0..Len(name) :
        /\ name[begin + n + 1] = 46
        /\ \A m \in 0..(n - 1) : name[begin + m + 1] # 46

\* The offsets within a pointer's reach at which a suffix was written
\* before, given the pairs <<suffix, offset>> written before.
Reachable(suffix, before) == {w[2] : w \in {w \in before : w[1] = suffix /\ w[2] <= 16383}}

LeastOf(S) == CHOOSE x \in S : \A y \in S : x <= y

\* The pairs <<suffix, offset>> of the labels a name puts in line when it is
\* written at the origin-relative offset at: every label before the first
\* whose suffix was written before.
RECURSIVE InlineLabels(_, _, _, _)
InlineLabels(name, begin, at, before) ==
    IF name = <<46>> \/ begin >= Len(name) \/ Reachable(Suffix(name, begin), before) # {}
    THEN {}
    ELSE {<<Suffix(name, begin), at>>}
         \cup InlineLabels(name, begin + LabelLen(name, begin) + 1,
                           at + 1 + LabelLen(name, begin), before)

\* The pairs written by a run of names, each with the offset it was written at.
RECURSIVE SuffixesWritten(_)
SuffixesWritten(places) ==
    IF places = <<>> THEN {}
    ELSE Let(SuffixesWritten(SubSeq(places, 1, Len(places) - 1)), LAMBDA before :
             before \cup InlineLabels(places[Len(places)].name, 0,
                                      places[Len(places)].at, before))

\* The encoding the compression rule gives a valid canonical name: labels
\* until the first whose suffix was written before within reach, there the
\* first offset of that suffix | 0xC000; a zero byte if there is none.
RECURSIVE RuleName(_, _, _)
RuleName(name, begin, before) ==
    IF name = <<46>> \/ begin >= Len(name) THEN <<0>>
    ELSE IF Reachable(Suffix(name, begin), before) # {}
    THEN U16Bytes(BitOr(LeastOf(Reachable(Suffix(name, begin), before)), 49152))
    ELSE <<LabelLen(name, begin)>>
         \o SubSeq(name, begin + 1, begin + LabelLen(name, begin))
         \o RuleName(name, begin + LabelLen(name, begin) + 1, before)

\* The names written before the last write_* call.
PlacesBefore == IF last.logged THEN SubSeq(sent.places, 1, Len(sent.places) - 1) ELSE sent.places

\* C12: name compression rule.  A successful write_question leaves the sink
\* behind the name's encoding by the compression rule and the 4 bytes of
\* type and class, and the bytes of the name in the sink are that encoding;
\* in particular "b.c." written after "a.b.c." takes exactly 2 bytes.
CompressionRule ==
    (last.op = "write_question" /\ last.res.ok) =>
        /\ builder.writer.pos - builder.begin_pos
           = last.at + Len(RuleName(last.record.name, 0, SuffixesWritten(PlacesBefore))) + 4
        /\ builder.writer.kind = "vec" =>
              SubSeq(builder.writer.data, builder.begin_pos + last.at + 1,
                     builder.writer.pos - 4)
              = RuleName(last.record.name, 0, SuffixesWritten(PlacesBefore))
        /\ (/\ last.record.name = NameBC
            /\ \E i \in 1..Len(PlacesBefore) :
                  PlacesBefore[i].name = NameABC /\ PlacesBefore[i].at + 2 <= 16383)
           => builder.writer.pos - builder.begin_pos = last.at + 2 + 4

\* "b.c." was written in 2 bytes behind "a.b.c.".
SuffixPointed ==
    /\ last.op = "write_question" /\ last.res.ok
    /\ last.record.name = NameBC
    /\ builder.writer.kind = "vec"
    /\ \E i \in 1..Len(PlacesBefore) : PlacesBefore[i].name = NameABC
    /\ builder.writer.pos - builder.begin_pos = last.at + 2 + 4

\* The number of bytes in the body of a resource whose body holds no name.
RECURSIVE TextBytes(_)
TextBytes(txt) == IF txt = <<>> THEN 0 ELSE 1 + Len(Head(txt)) + TextBytes(Tail(txt))

BodyLen(data) == IF data.kind = "TXT" THEN TextBytes(data.txt) ELSE Len(BodyBefore(data))

\* The 0-based sink offset of the length field of the resource with the
\* root name written by the last call: behind the name, type, class and ttl.
LenPos == builder.begin_pos + last.at + 1 + 8

\* C13: resource-data length.  After a successful write_answer,
\* write_authority or write_additional the 16-bit length field before the
\* body holds the number of bytes of the body written, whatever the size of
\* the body, and the sink is at the end of the body.
LengthFieldIsBodyLength ==
    (last.op \in {"write_answer", "write_authority", "write_additional"} /\ last.res.ok) =>
        /\ builder.writer.pos = LenPos + 2 + BodyLen(last.record.data)
        /\ LenPos + 2 <= Len(builder.writer.data) =>
              U16From(SubSeq(builder.writer.data, LenPos + 1, LenPos + 2))
              = BodyLen(last.record.data)

\* Where the first answer of a message without questions has its type, its
\* declared length and its data (0-based offsets; the name is the root).
FirstType == U16From(SubSeq(buf, 14, 15))
FirstLimit == 23 + U16From(SubSeq(buf, 22, 23))

\* The fixed-width reads of a known type in the order they are made, as
\* <<offset, width>>, for data at offset whose names are the root.
FieldReads(typ, offset) ==
    CASE typ = TypeA -> << <<offset, 4>> >>
      [] typ = TypeAAAA -> << <<offset, 16>> >>
      [] typ = TypeMX -> << <<offset, 2>> >>
      [] typ = TypeSRV -> << <<offset, 2>>, <<offset + 2, 2>>, <<offset + 4, 2>> >>
      [] typ = TypeSOA -> [i \in 1..5 |-> <<offset + 2 + 4 * (i - 1), 4>>]
      [] OTHER -> <<>>

\* What the first read that leaves the region or the buffer must yield:
\* ShortBuffer past the end of the buffer, PacketSizeMismatch past the end
\* of the region inside the buffer, "none" when every read stays inside.
RECURSIVE ReadsVerdict(_, _, _)
ReadsVerdict(reads, limit, len) ==
    IF reads = <<>> THEN "none"
    ELSE IF Head(reads)[1] + Head(reads)[2] > len THEN "ShortBuffer"
    ELSE IF Head(reads)[1] + Head(reads)[2] > limit THEN "PacketSizeMismatch"
    ELSE ReadsVerdict(Tail(reads), limit, len)

\* The same for the length bytes and strings of a TXT body.
RECURSIVE TxtVerdict(_, _, _)
TxtVerdict(pkt, offset, limit) ==
    IF offset >= limit THEN "none"
    ELSE IF ReadsVerdict(<< <<offset, 1>> >>, limit, Len(pkt)) # "none"
    THEN ReadsVerdict(<< <<offset, 1>> >>, limit, Len(pkt))
    ELSE IF ReadsVerdict(<< <<offset + 1, pkt[offset + 1]>> >>, limit, Len(pkt)) # "none"
    THEN ReadsVerdict(<< <<offset + 1, pkt[offset + 1]>> >>, limit, Len(pkt))
    ELSE TxtVerdict(pkt, offset + 1 + pkt[offset + 1], limit)

FirstVerdict ==
    IF FirstType = TypeTXT THEN TxtVerdict(buf, 23, FirstLimit)
    ELSE IF FirstType = TypeSOA /\ Len(buf) < 25 THEN "none"
    ELSE ReadsVerdict(FieldReads(FirstType, 23), FirstLimit, Len(buf))

\* C14: region-bounded field reads.  When a fixed-width field read of a
\* record of a known type would extend past the end of the buffer the
\* record's item is Err(ShortBuffer); when it would extend past the end of
\* the declared data region and lies inside the buffer the item is
\* Err(PacketSizeMismatch).
RegionBoundedReads ==
    (view.read /\ FirstVerdict # "none") => view.items.answers[1] = Err(FirstVerdict)

\* A read of the first answer left its region inside the buffer.
RegionLeft ==
    /\ view.read /\ FirstVerdict = "PacketSizeMismatch"
    /\ view.items.answers[1] = Err("PacketSizeMismatch")

\* The record that follows the first answer as the (i)th answer, parsed
\* where the scan of Packet::new found it: each empty record takes 11 bytes.
FollowingRecord(i) == parse_resource(buf, FirstLimit + 11 * (i - 2))

\* C15: per-item errors.  The answers iterator yields as many items as the
\* section's count, and the well-formed records behind the first answer are
\* yielded as Ok with their own contents whether or not the first answer
\* parsed.
PerItemErrors ==
    view.read =>
        /\ Len(view.items.answers) = U16From(SubSeq(buf, 7, 8))
        /\ \A i \in 2..Len(view.items.answers) :
              /\ FollowingRecord(i).ok
              /\ view.items.answers[i] = Ok(FollowingRecord(i).val.rec)

\* C16: cursor advance.  On an accepted packet next() returns true while
\* fewer calls returned true than the section has records and false after
\* that, and after the i-th true question() / resource() returns the item
\* the section's iterator yields as its i-th.
CursorAdvance ==
    /\ last.op = "next" =>
          \/ last.res = Ok(TRUE) /\ cursor.trues <= packet.res.val.sections[cursor.kind]
          \/ last.res = Ok(FALSE) /\ cursor.trues = packet.res.val.sections[cursor.kind]
    /\ (last.op \in {"question", "resource"} /\ cursor.trues >= 1) =>
          last.res = PacketItems(packet.res.val)[cursor.kind][cursor.trues]

\* C17: cursor state check.  While no next() of a cursor has returned true,
\* its question(), resource(), set_type, set_class and set_ttl return
\* InvalidCursorState and leave the buffer as it was.
CursorStateCheck ==
    (/\ last.op \in {"question", "resource", "set_type", "set_class", "set_ttl"}
     /\ cursor.trues = 0) =>
        /\ last.res = Err("InvalidCursorState")
        /\ packet.res.val.packet = last.before

\* A setter was refused on the cursor of an empty section.
FreshCursorRefused ==
    /\ last.op = "set_ttl"
    /\ cursor.kind = "authorities" /\ cursor.trues = 0
    /\ packet.res.val.sections.authorities = 0
    /\ last.res = Err("InvalidCursorState")
    /\ packet.res.val.packet = last.before

\* Whether a name is "." or ends in a dot.
Canonical(name) == name = <<46>> \/ (name # <<>> /\ name[Len(name)] = 46)

\* The lengths of the labels of a name that ends in a dot, left to right.
RECURSIVE LabelLens(_, _)
LabelLens(name, begin) ==
    IF begin >= Len(name) THEN <<>>
    ELSE <<LabelLen(name, begin)>> \o LabelLens(name, begin + LabelLen(name, begin) + 1)

\* The labels of no byte or of 64 bytes and more, by position.
OutOfSize(lens) == {i \in 1..Len(lens) : lens[i] = 0 \/ lens[i] >= 64}

\* C18: non-canonical-name rejection.  write_question with a name that is
\* not "." and does not end in a dot, the empty name included, returns
\* NonCanonicalName and leaves the contents and the position of the sink as
\* they were before the call.
NonCanonicalRejected ==
    [][(last'.op = "write_question" /\ ~Canonical(last'.record.name)) =>
          /\ last'.res = Err("NonCanonicalName")
          /\ builder'.writer = builder.writer]_vars

\* The empty name was refused behind a question that was written.
EmptyNameRefused ==
    /\ last.op = "write_question" /\ last.record.name = <<>>
    /\ last.res = Err("NonCanonicalName")
    /\ calls.questions = 1
    /\ builder.writer.pos = builder.begin_pos + last.at

\* C19: label-size rejection.  A name that ends in a dot and has a label of
\* no byte or of 64 bytes and more is refused with InvalidNameSegmentSize(n),
\* n the length of the leftmost such label; a name whose labels all have 1
\* to 63 bytes is never refused with that error.
LabelSizeRejected ==
    (/\ last.op = "write_question"
     /\ Canonical(last.record.name) /\ last.record.name # <<46>>) =>
        Let(LabelLens(last.record.name, 0), LAMBDA lens :
            IF OutOfSize(lens) # {}
            THEN last.res = [ok |-> FALSE, err |-> "InvalidNameSegmentSize",
                             val |-> lens[LeastOf(OutOfSize(lens))]]
            ELSE last.res.err # "InvalidNameSegmentSize")

\* A name was refused for a label of 64 bytes behind a label in size.
LongLabelRefused ==
    /\ last.op = "write_question"
    /\ last.record.name = Dotted(<<Label(1), Label(64)>>)
    /\ last.res = [ok |-> FALSE, err |-> "InvalidNameSegmentSize", val |-> 64]

\* C20: name length limit.  A canonical name whose labels are in size and
\* whose wire form (a length byte and the bytes of every label, and the
\* root) is longer than 255 bytes is refused with NameTooLong.
LongNameRejected ==
    (/\ last.op = "write_question"
     /\ Canonical(last.record.name) /\ last.record.name # <<46>>
     /\ OutOfSize(LabelLens(last.record.name, 0)) = {}
     /\ Len(last.record.name) + 1 > 255) =>
        last.res = Err("NameTooLong")

\* C21: unknown record passthrough.  A record whose type code has no arm in
\* the parser is read as Unknown with that code and the whole declared data
\* region, and written by a Builder and read again it has the same type
\* code and the same body.
UnknownPassthrough ==
    /\ (view.read /\ phase # "Finished") =>
          /\ FirstLimit <= Len(buf)
          /\ view.items.answers[1].ok
          /\ view.items.answers[1].val.data.kind = "Unknown"
          /\ MaybeInto(view.items.answers[1].val.data.typ) = FirstType
          /\ view.items.answers[1].val.data.data = SubSeq(buf, 24, FirstLimit)
    /\ (view.read /\ phase = "Finished") =>
          /\ view.val.answers[1].ok
          /\ view.val.answers[1].val.data.kind = "Unknown"
          /\ MaybeInto(view.val.answers[1].val.data.typ)
             = MaybeInto(sent.answers[1].data.typ)
          /\ view.val.answers[1].val.data.data = sent.answers[1].data.data

\* The records of a section packed one behind the other, then the count of
\* the section stored at `at`, by a Builder whose calls all succeed.
RECURSIVE PackAll(_, _, _)
PackAll(b, records, isQuestion) ==
    IF records = <<>> THEN b
    ELSE PackAll((IF isQuestion THEN pack_question(b, Head(records))
                  ELSE pack_resource(b, Head(records))).b, Tail(records), isQuestion)

Section(b, records, isQuestion, at) ==
    Builder_write_at(PackAll(b, records, isQuestion), at, U16Bytes(Len(records)))

\* The message the calls logged in m produce on an empty sink at position 0.
Replayed(m) ==
    Section(Section(Section(Section(
        Builder_write(Builder_new(VecSink), header_bytes(m.header)),
        m.questions, TRUE, 4), m.answers, FALSE, 6), m.authorities, FALSE, 8),
        m.additionals, FALSE, 10).writer.data

\* C22: message origin.  A Builder made on a sink at position p > 0 leaves
\* the bytes before p as they were, and the bytes from p on of the finished
\* message, the section counts and every compression pointer among them,
\* are those the same calls produce on an empty sink at position 0.
MessageOrigin ==
    /\ SubSeq(builder.writer.data, 1, builder.begin_pos)
       = SubSeq(OriginPrefix, 1, builder.begin_pos)
    /\ phase = "Finished" =>
          SubSeq(builder.writer.data, builder.begin_pos + 1, Len(builder.writer.data))
          = Replayed(sent)

\* A message with a compression pointer was finished behind three bytes.
PointerBehindPrefix ==
    /\ phase = "Finished" /\ builder.begin_pos = 3
    /\ Len(sent.questions) = 1 /\ sent.questions[1].name = NameA
    /\ Len(sent.answers) = 1 /\ sent.answers[1].data.kind = "NS"
    /\ SubSeq(builder.writer.data, builder.begin_pos + 1, Len(builder.writer.data))
       = Replayed(sent)

\* The numeric values of the named members of an enumeration.
NamedValues(enum) ==
    CASE enum = "Type" -> TypeValues
      [] enum = "Class" -> ClassValues
      [] OTHER -> RCodeValues

\* C23: MaybeUnknown round trip.  A 16-bit value decodes to Known(e) exactly
\* when it is the numeric value of the named member e of the enumeration
\* and to Unknown(v) otherwise, and the decoded value encodes to v.
MaybeUnknownRoundTrip ==
    /\ last.op \in {"from", "into"} =>
          IF last.v \in NamedValues(last.enum)
          THEN /\ last.res.k = "Known"
               /\ last.res.v \in DOMAIN Members[last.enum]
               /\ Members[last.enum][last.res.v] = last.v
          ELSE last.res.k = "Unknown" /\ last.res.v = last.v
    /\ last.op = "into" => last.back = last.v

\* The value of Type::AXFR was decoded and encoded.
MemberCoded ==
    /\ last.op = "into" /\ last.enum = "Type" /\ last.v = 252
    /\ last.res = Known("AXFR") /\ last.back = 252

\* C24: bounded pointer depth of built messages.  No name of a message the
\* Builder finished fails with TooManyPointers when the message is read,
\* whatever the order in which names sharing suffixes were written.
PointerDepthBounded ==
    (phase = "Finished" /\ view.read) =>
        \A s \in Sections : \A i \in 1..Len(view.val[s]) :
            ~(~view.val[s][i].ok /\ view.val[s][i].err = "TooManyPointers")

\* C25: the label iterator is finite.  For every buffer and start offset,
\* an iterator of segments() that is driven to exhaustion ends: it returns
\* None after finitely many items, also when an item was an error.
SegmentsFinite == <>(last.op = "next" /\ last.res = Ok(<<>>))

\* C26: set_header agrees with write_header.  Packet::set_header(h) leaves
\* in bytes 0..4 the id of h and the flag word write_header emits for h,
\* and every byte from offset 4 on as it was.
SetHeaderAgrees ==
    last.op = "set_header" =>
        /\ last.res.ok
        /\ SubSeq(packet.res.val.packet, 1, 4) =
              U16Bytes(last.header.id) \o U16Bytes(header_bits(last.header))
        /\ Len(packet.res.val.packet) = Len(last.before)
        /\ SubSeq(packet.res.val.packet, 5, Len(last.before)) =
              SubSeq(last.before, 5, Len(last.before))

\* Where the in-place encoding of the name at offset ends: behind its zero
\* terminator or its first pointer, or behind the buffer when it has neither.
RECURSIVE NameEnd(_, _)
NameEnd(pkt, offset) ==
    IF offset >= Len(pkt) THEN Len(pkt) + 1
    ELSE IF pkt[offset + 1] = 0 THEN offset + 1
    ELSE IF pkt[offset + 1] >= 192 THEN offset + 2
    ELSE NameEnd(pkt, offset + 1 + (pkt[offset + 1] % 64))

\* Where the embedded names of the first answer start.
FirstNames ==
    CASE FirstType \in {TypeNS, TypeCNAME, TypePTR} -> {23}
      [] FirstType = TypeMX -> {25}
      [] FirstType = TypeSRV -> {29}
      [] FirstType = TypeSOA -> {23, NameEnd(buf, 23)}
      [] OTHER -> {}

\* C27: embedded names stay inside the record body.  A record of a type
\* with an embedded name whose name starts at or runs past the end of the
\* declared data region is not yielded with a name: reading it and its
\* names gives an error (PacketSizeMismatch, or ShortBuffer where the buffer
\* ends first).
EmbeddedNamesInRegion ==
    (view.read /\ \E o \in FirstNames : NameEnd(buf, o) > FirstLimit) =>
        /\ ~view.val.answers[1].ok
        /\ view.val.answers[1].err \in {"PacketSizeMismatch", "ShortBuffer"}

\* C28 as stated: for a question whose name is a pointer to its own offset,
\* Packet::new succeeds and the item questions() yields is the error
\* TooManyPointers.
CycleItemIsError ==
    /\ packet.made => packet.res.ok
    /\ view.read => view.items.questions = << Err("TooManyPointers") >>

\* C28: pointer cycle inside a question.  For a question whose name is a
\* pointer to its own offset, Packet::new succeeds, questions() yields one
\* Ok item with the type and class of the buffer and the name not yet
\* resolved, and converting that name (String::try_from, try_into_owned)
\* returns TooManyPointers.
CycleInQuestion ==
    /\ packet.made => packet.res.ok
    /\ view.read =>
          /\ view.items.questions =
                << Ok([name |-> 12,
                       typ |-> MaybeFrom(TypeValues, U16From(SubSeq(buf, 15, 16))),
                       class |-> MaybeFrom(ClassValues, U16From(SubSeq(buf, 17, 18)))]) >>
          /\ view.val.questions = << Err("TooManyPointers") >>
    /\ last.op = "name" => last.res.res = Err("TooManyPointers")

\* The questions of a self-pointing name were read and the name converted.
CycleQuestionRead ==
    /\ view.read /\ last.op = "name"
    /\ U16From(SubSeq(buf, 15, 16)) = TypeA
    /\ view.items.questions[1].ok
    /\ view.val.questions[1] = Err("TooManyPointers")
    /\ last.res.res = Err("TooManyPointers")

\* C29: failed writes are atomic.  A write_* call that returns
\* NonCanonicalName, InvalidNameSegmentSize or TextTooLong leaves the
\* sink's contents, the sink's position and the compression dictionary as
\* they were before the call.
FailedWritesAtomic ==
    [][(/\ last'.op \in {"write_question", "write_answer", "write_authority",
                         "write_additional"}
        /\ ~last'.res.ok
        /\ last'.res.err \in {"NonCanonicalName", "InvalidNameSegmentSize", "TextTooLong"})
       => /\ builder'.writer = builder.writer
          /\ builder'.name_ptrs = builder.name_ptrs]_vars

\* The offsets at which a suffix was written, given the pairs written.
WrittenAt(suffix, pairs) == {w[2] : w \in {w \in pairs : w[1] = suffix}}

\* The 0-based offset of the pointer that ends the name at offset, or -1
\* when the name ends in a zero byte.
RECURSIVE PointerOf(_, _)
PointerOf(data, offset) ==
    IF data[offset + 1] = 0 THEN -1
    ELSE IF data[offset + 1] >= 192 THEN offset
    ELSE PointerOf(data, offset + 1 + data[offset + 1])

\* The suffixes of a name that start a label.
LabelSuffixes(name) ==
    IF name = <<46>> THEN {}
    ELSE { Suffix(name, i) : i \in {0} \cup {j \in 1..(Len(name) - 1) : name[j] = 46} }

\* C30: 14-bit pointer targets.  The dictionary holds exactly the suffixes
\* first written at an origin-relative offset <= 0x3FFF, each with that
\* first offset; a pointer the Builder emits has the top bits 11 and in its
\* low 14 bits an offset before its own; and a name none of whose suffixes
\* was first written at or below 0x3FFF is written in full.
PointerTargets ==
    /\ \A k \in DOMAIN builder.name_ptrs :
          /\ builder.name_ptrs[k] <= 16383
          /\ WrittenAt(k, SuffixesWritten(sent.places)) # {}
          /\ builder.name_ptrs[k] = LeastOf(WrittenAt(k, SuffixesWritten(sent.places)))
    /\ \A w \in SuffixesWritten(sent.places) :
          w[1] \in DOMAIN builder.name_ptrs
          <=> LeastOf(WrittenAt(w[1], SuffixesWritten(sent.places))) <= 16383
    /\ (last.op = "write_question" /\ last.res.ok /\ last.logged) =>
          /\ (builder.writer.kind = "vec"
              /\ PointerOf(builder.writer.data, builder.begin_pos + last.at) # -1) =>
                Let(PointerOf(builder.writer.data, builder.begin_pos + last.at), LAMBDA p :
                Let(U16From(SubSeq(builder.writer.data, p + 1, p + 2)), LAMBDA ptr :
                    /\ ptr \div 16384 = 3
                    /\ ptr % 16384 < p - builder.begin_pos
                    /\ ptr % 16384 \in { w[2] : w \in SuffixesWritten(PlacesBefore) }))
          /\ (\A k \in LabelSuffixes(last.record.name) :
                \A at \in WrittenAt(k, SuffixesWritten(PlacesBefore)) : at > 16383)
             => builder.writer.pos - builder.begin_pos
                = last.at + Len(last.record.name) + 1 + 4

\* "a." was written in full a second time, the first above 0x3FFF.
WrittenInFullAgain ==
    /\ last.op = "write_question" /\ last.res.ok /\ last.logged
    /\ last.record.name = NameA
    /\ WrittenAt(NameA, SuffixesWritten(PlacesBefore)) # {}
    /\ \A at \in WrittenAt(NameA, SuffixesWritten(PlacesBefore)) : at > 16383
    /\ builder.writer.pos - builder.begin_pos = last.at + 3 + 4
    /\ NameA \notin DOMAIN builder.name_ptrs

\* The big-endian count field of a section in the sink.
CountField(at) ==
    U16From(SubSeq(builder.writer.data, builder.begin_pos + at + 1, builder.begin_pos + at + 2))

\* C7: section-count fidelity.  Once the four finish_* calls have succeeded
\* the count fields at origin+4, +6, +8, +10 equal the numbers of
\* successful write_question, write_answer, write_authority and
\* write_additional calls.
SectionCountFidelity ==
    phase = "Finished" =>
        /\ CountField(4) = calls.questions
        /\ CountField(6) = calls.answers
        /\ CountField(8) = calls.authorities
        /\ CountField(10) = calls.additionals

\* The flag word the header encoding prescribes: bit 15 the response flag,
\* bits 14..11 the low 4 bits of the opcode, bits 10..4 the flags, bits
\* 3..0 the low 4 bits of the response code.
PrescribedFlagWord(h) ==
    (IF h.resp THEN 32768 ELSE 0) + (h.opcode % 16) * 2048
    + BitAnd(h.flags, HeaderFlagsAll) + (MaybeInto(h.rcode) % 16)

\* C8: header encoding.  write_header emits exactly 12 bytes: the id, the
\* prescribed flag word and four zero section counts.
HeaderEncoding ==
    last.op = "write_header" =>
        /\ builder.writer.pos = 12
        /\ builder.writer.data =
              U16Bytes(sent.header.id) \o U16Bytes(PrescribedFlagWord(sent.header))
              \o <<0, 0, 0, 0, 0, 0, 0, 0>>

\* C9: header round trip.  For a header with opcode < 16 and response code
\* < 16, Packet::header() on the built message returns the id, response
\* flag, opcode, response code and flags written.
HeaderRoundTrip ==
    (last.op = "header" /\ sent.header.opcode < 16 /\ MaybeInto(sent.header.rcode) < 16) =>
        /\ last.res.ok
        /\ last.res.val.id = sent.header.id
        /\ last.res.val.resp = sent.header.resp
        /\ last.res.val.opcode = sent.header.opcode
        /\ MaybeInto(last.res.val.rcode) = MaybeInto(sent.header.rcode)
        /\ last.res.val.flags = sent.header.flags


=============================================================================
